---- MODULE Spec2Model ----
(***************************************************************************)
(* Model of the E-DNA quiz backend: the save-results / generate-pdf /      *)
(* submit-new request handlers, the detached PDF pipeline                  *)
(* (generatePDFInBackground), the download-token tables and the public     *)
(* GET /download redemption endpoint.                                      *)
(*                                                                         *)
(* The repository holds two servers built on the same handlers:            *)
(*   "postgres" : index-updated.js (second server) + postgres-db.js        *)
(*   "supabase" : the server in s3.js + supabase-db.js / aurora-db.js      *)
(* The variable backend says which of the two is deployed.                 *)
(* Time is counted in hours.                                               *)
(***************************************************************************)
EXTENDS Integers, Sequences, FiniteSets, TLC

\* ---------------------------------------------------------------- bounds
MaxIds == 2        \* uuids / row ids handed out
MaxTokens == 2     \* distinct token strings
MaxTicks == 2      \* clock advances
MaxSaves == 3      \* saves made on the store, StoreSpec

\* ------------------------------------------------------ program constants
TokenTtlHours == 168
LinkTtlHours == 7
PresignHours == 7

Ids == 1..MaxIds
TokenStrs == 1..MaxTokens
NoToken == 0                       \* req.query.token absent
NoKey == <<>>                      \* null s3_key
NoUrl == <<>>                      \* null pdf_url
NoEmail == ""                      \* req.body.email absent
NoResults == ""                    \* req.body.results / answers absent
RawEmails == {"ann", " Ann"}            \* emails the requests carry
EmailStrings == {"ann", " Ann", " ann", "joann"}   \* the strings of the model
Payloads == {"r1"}
Backends == {"postgres", "supabase"}
DbStates == {"ok", "query_error", "connect_error"}
\* the clock moves by an hour or by the life time of the deployed token kind
ClockSteps(b) == IF b = "postgres" THEN {1, TokenTtlHours} ELSE {1, LinkTtlHours}
Stages == {"render", "upload", "attach", "token", "notify"}

VARIABLES backend, now, ticks, nextId, quiz_results, tokens, links, tasks,
          reply, resp, files, timers, s3, ghl, seen, saved, quiz, pool

\* saved is the log of the saves made call by call on the persistence
\* collaborator (StoreSpec); the servers' handlers keep no such log.
\* quiz is the answer map handed to the scoring engine with what the engine
\* returned for it (ScoreSpec), and a second map with its results (PairSpec).
\* pool is the connection pool of postgres-db.js with the clients checked out
\* of it and the operations under way (PoolSpec)
vars == <<backend, now, ticks, nextId, quiz_results, tokens, links, tasks,
          reply, resp, files, timers, s3, ghl, seen, saved, quiz, pool>>

\* ---------------------------------------------------------------- helpers
\* let pool = null, no client checked out, no operation started
MaxPools == 3
MaxOps == 2
OpIds == 1..MaxOps
NoPool == [current |-> 0, made |-> 0, live |-> {}, closing |-> FALSE, out |-> 0,
           ops |-> [o \in OpIds |-> [kind |-> "none", pc |-> "idle"]],
           call |-> "none", ret |-> 0]

\* no answer map has been handed to the scoring engine
NoQuiz == [answers |-> <<>>, call |-> "none", threw |-> FALSE, results |-> <<>>,
           other |-> <<>>, otherResults |-> <<>>]

\* email.toLowerCase().trim()
LowerTrim(e) ==
  CASE e = " Ann" -> "ann"
    [] e = " ann" -> "ann"
    [] OTHER -> e

\* email.toLowerCase()
Lower(e) ==
  CASE e = " Ann" -> " ann"
    [] OTHER -> e

\* SQL: hay ILIKE '%needle%'
ILikeContains(hay, needle) ==
  \/ Lower(hay) = needle
  \/ needle = "ann" /\ Lower(hay) \in {" ann", "joann"}

\* `edna-results-${resultId}.pdf`
PdfFileName(resultId) == <<"edna-results", resultId>>

\* `pdfs/${fileName}`
S3KeyOf(fileName) == <<"pdfs">> \o fileName

\* the presigned url uploadPDFToS3 returns for a key
UrlOf(key) == <<"url">> \o key

uploadPDFToS3(fileName, ok) ==
  IF ok THEN [success |-> TRUE, url |-> UrlOf(S3KeyOf(fileName)), key |-> S3KeyOf(fileName)]
  ELSE [success |-> FALSE, url |-> NoUrl, key |-> NoKey]

\* the storage collaborator either signs the key it is given or fails
generatePresignedPdfUrl(s3Key, ok) ==
  IF ok THEN [success |-> TRUE, url |-> UrlOf(s3Key)]
  ELSE [success |-> FALSE, url |-> NoUrl]

\* the quiz payloads: r1 and r2 agree on the scalar summary fields
\* (core_type, subtype, ...) and differ in their nested layer objects
ScalarColumnsOf(results) ==
  CASE results = "r1" -> "architect"
    [] results = "r2" -> "architect"
    [] OTHER -> ""

\* JSON.stringify(results) into quiz_data, and the driver's parse on the way out
NoJson == <<>>
JsonStringify(results) == <<"json", results>>
JsonParse(text) == text[2]

NoRow == [id |-> 0, email |-> "", quiz_data |-> NoJson, core_type |-> "", pdf_url |-> NoUrl,
          s3_key |-> NoKey, created_at |-> 0, updated_at |-> 0]

ZeroRuns == [s \in Stages |-> 0]
NoTask == [pc |-> "none", key |-> NoKey, tok |-> NoToken, runs |-> ZeroRuns]
Bump(runs, stage) == [runs EXCEPT ![stage] = IF @ < 2 THEN @ + 1 ELSE 2]

\* resp is the response a handler has just written; ResponseSent takes it
\* off the wire before the next event is handled.  valid, saveOk, renderOk,
\* cond, db, presignOk and ready record what the request met.
NoResp == [h |-> "none", status |-> 0, body |-> "", valid |-> TRUE,
           saveOk |-> TRUE, renderOk |-> TRUE, tok |-> NoToken, cond |-> "",
           db |-> "ok", presignOk |-> TRUE,
           key |-> NoKey, rid |-> 0, pdfUrl |-> NoUrl, ready |-> "n/a",
           sent |-> 0, after |-> ""]

\* res.status(status).json({... error/message: body}): one response written.
\* sent counts the responses written for the request, after records what
\* happened once the first one had gone out.
Respond(h, status, body) ==
  [NoResp EXCEPT !.h = h, !.status = status, !.body = body, !.sent = 1]

\* ------------------------------------------------- postgres-db.js (pg)
\* a saveQuizResult on a table whose id is no key: a plain INSERT every time
saveQuizResultNoPrimaryKey(rows, id, email, results, pdfUrl, s3Key, db) ==
  IF db # "ok" \/ email \notin EmailStrings \/ results = NoResults
  THEN [success |-> FALSE, rows |-> rows, id |-> 0]
  ELSE [success |-> TRUE,
        rows |-> rows \cup {[id |-> id, email |-> LowerTrim(email),
                             quiz_data |-> JsonStringify(results),
                             core_type |-> ScalarColumnsOf(results),
                             pdf_url |-> pdfUrl, s3_key |-> s3Key, created_at |-> now,
                             updated_at |-> now]},
        id |-> id]

\* saveQuizResult(id, email, name, results, pdfUrl, s3Key): INSERT ... ON
\* CONFLICT (id) DO UPDATE.  email.toLowerCase() throws inside the try when
\* email is not a string, results.ednaType when results is undefined; a
\* rejected query is caught the same way.
saveQuizResult(rows, id, email, results, pdfUrl, s3Key, db) ==
  IF db # "ok" \/ email \notin EmailStrings \/ results = NoResults
  THEN [success |-> FALSE, rows |-> rows, id |-> 0]
  ELSE LET old == {r \in rows : r.id = id}
           ins == [id |-> id, email |-> LowerTrim(email), quiz_data |-> JsonStringify(results),
                   core_type |-> ScalarColumnsOf(results),
                   pdf_url |-> pdfUrl, s3_key |-> s3Key, created_at |-> now, updated_at |-> now]
           upd == {[r EXCEPT !.quiz_data = JsonStringify(results),
                             !.core_type = ScalarColumnsOf(results),
                             !.pdf_url = pdfUrl, !.s3_key = s3Key, !.updated_at = now] : r \in old}
       IN [success |-> TRUE,
           rows |-> IF old = {} THEN rows \cup {ins} ELSE (rows \ old) \cup upd,
           id |-> id]

Latest(rows) == {r \in rows : \A o \in rows : o.created_at <= r.created_at}

\* getQuizResultByEmail: exact match on LOWER(TRIM(email)), newest first,
\* then the ILIKE '%email%' fallback.  Rows with equal created_at come back
\* in an order SQL does not fix: every one of them is a possible answer.
getQuizResultByEmail(email, db) ==
  LET normalizedEmail == LowerTrim(email)
      exact == {r \in quiz_results : LowerTrim(r.email) = normalizedEmail}
      fallback == {r \in quiz_results : ILikeContains(r.email, normalizedEmail)}
      hit == IF exact # {} THEN Latest(exact) ELSE Latest(fallback)
  IN IF db # "ok" \/ hit = {}
     THEN {[success |-> FALSE, data |-> NoRow]}
     ELSE {[success |-> TRUE, data |-> r] : r \in hit}

\* a createDownloadToken written as an upsert (ON CONFLICT (token) DO UPDATE)
createDownloadTokenUpsert(rows, token, quizResultId, expiresAt, db) ==
  IF db # "ok" \/ ~ \E q \in quiz_results : q.id = quizResultId
  THEN [success |-> FALSE, rows |-> rows]
  ELSE [success |-> TRUE,
        rows |-> {t \in rows : t.token # token}
                   \cup {[token |-> token, quiz_result_id |-> quizResultId,
                           expires_at |-> expiresAt]}]

\* a createDownloadToken that reports success without having inserted the row
createDownloadTokenNotPersisted(rows, token, quizResultId, expiresAt, db) ==
  IF db # "ok" THEN [success |-> FALSE, rows |-> rows]
  ELSE [success |-> TRUE, rows |-> rows]

\* a createDownloadToken on a table declared without the REFERENCES clause
createDownloadTokenNoForeignKey(rows, token, quizResultId, expiresAt, db) ==
  IF db # "ok" \/ \E t \in rows : t.token = token
  THEN [success |-> FALSE, rows |-> rows]
  ELSE [success |-> TRUE,
        rows |-> rows \cup {[token |-> token, quiz_result_id |-> quizResultId,
                             expires_at |-> expiresAt]}]

\* createDownloadToken: INSERT INTO pdf_download_tokens; token is the primary
\* key and quiz_result_id REFERENCES quiz_results(id).
createDownloadToken(rows, token, quizResultId, expiresAt, db) ==
  IF \/ db # "ok"
     \/ \E t \in rows : t.token = token
     \/ ~ \E q \in quiz_results : q.id = quizResultId
  THEN [success |-> FALSE, rows |-> rows]
  ELSE [success |-> TRUE,
        rows |-> rows \cup {[token |-> token, quiz_result_id |-> quizResultId,
                             expires_at |-> expiresAt]}]

\* verifyDownloadToken: SELECT t.*, q.* ... JOIN ... WHERE t.token = $1 AND
\* t.expires_at > CURRENT_TIMESTAMP
verifyDownloadToken(token, db) ==
  LET joined == {<<t, q>> \in tokens \X quiz_results :
                   /\ t.quiz_result_id = q.id
                   /\ t.token = token
                   /\ t.expires_at > now}
  IN IF db # "ok" \/ joined = {}
     THEN [success |-> FALSE, data |-> NoRow]
     ELSE [success |-> TRUE, data |-> (CHOOSE p \in joined : TRUE)[2]]

\* a verifyDownloadToken that consumes the token it looked up (single use)
verifyDownloadTokenConsumes(token) == {t \in tokens : t.token # token}

\* what the SELECT of verifyDownloadToken leaves in pdf_download_tokens
verifyDownloadTokenRows(token) == tokens


\* `const client = await getPool().connect()` stands before the try of every
\* function of postgres-db.js: a failed connect rejects the call itself
ConnectThrows(db) == db = "connect_error"

\* ------------------------------------------------ handlers: shared parts
\* a validation that looks at the email only
MissingFieldsEmailOnly(email, results) == email = NoEmail

\* if (!email || !results) return res.status(400)
MissingFields(email, results) == email = NoEmail \/ results = NoResults

\* generatePDFFromComponent: catches every error and returns {success}
generatePDFFromComponent(ok) == [success |-> ok]

\* notifyGhlWithDownloadLink: validates email and link, posts, catches
notifyGhlWithDownloadLink(email, downloadLink, ok) ==
  [success |-> (email # NoEmail /\ downloadLink # NoToken /\ ok)]

\* a catch block that runs the failed stage again
BgRetryStage(stage) == stage

\* a pipeline that goes on to the upload when the render stage failed
BgIgnoreRenderFailure(stage) == IF stage = "render" THEN "upload" ELSE "failed"

\* the catch block of generatePDFInBackground: log, do not rethrow, no retry
BgAfterThrow(stage) == "failed"

\* the promise generatePDFInBackground returns, as the handler's try block
\* sees it: the call is not awaited and a rejection goes to its .catch
PromiseStates == {"pending", "rejected"}
ThrownIntoTry(promise) == FALSE

\* the responses save-results writes: the answer (400, 500 from the catch, or
\* 200), and the catch's unguarded res.status(500).json once more when
\* something is thrown in the try after the 200
saveResultsWrites(status, promise) ==
  IF status = 200 /\ ThrownIntoTry(promise) THEN 2 ELSE 1

\* a download-pdf that sends its error response without looking at headersSent
SendsErrorUnguarded(headersSent) == TRUE

\* if (!res.headersSent) res.status(500).json(...)
SendsError(headersSent) == ~headersSent

\* how fileStream.pipe(res) ends: all of the file, an 'error' before any
\* chunk was written (headers not sent), or an 'error' after a chunk
StreamOutcomes == {"ok", "open_error", "read_error"}
HeadersSentAt(stream) == stream = "read_error"

\* a save-results that answers before it looks at the result of the save
saveResultsOutcomeUnchecked(dbSuccess) == [status |-> 200, spawn |-> TRUE]

\* save-results after `await saveQuizResult`: a failed save throws into the
\* catch (500); a good one answers 200 and only then starts the pipeline
saveResultsOutcome(dbSuccess) ==
  IF dbSuccess THEN [status |-> 200, spawn |-> TRUE]
  ELSE [status |-> 500, spawn |-> FALSE]

\* the condition a token is in when it is presented (ghost classification)
TokenRows(tok) ==
  IF backend = "postgres" THEN {t.expires_at : t \in {x \in tokens : x.token = tok}}
  ELSE {l.expires_at : l \in {x \in links : x.token = tok}}

TokenCond(tok) ==
  IF tok = NoToken THEN "missing"
  ELSE IF TokenRows(tok) = {} THEN "unknown"
  ELSE LET e == CHOOSE x \in TokenRows(tok) : TRUE
       IN IF now < e THEN "active" ELSE IF now = e THEN "boundary" ELSE "expired"

\* the email the request of result id gave (the row keeps it normalized)
RowEmail(id) ==
  LET rs == {r \in quiz_results : r.id = id}
  IN IF rs = {} THEN NoEmail ELSE (CHOOSE r \in rs : TRUE).email

\* ------------------------------------ supabase-db.js / aurora-db.js (sb)
\* saveQuizResult(email, results, pdfUrl): insert, the store assigns the id
saveQuizResultSupabase(rows, newId, email, results, pdfUrl, db) ==
  IF db # "ok" \/ email \notin EmailStrings \/ results = NoResults
  THEN [success |-> FALSE, rows |-> rows, id |-> 0]
  ELSE [success |-> TRUE,
        rows |-> rows \cup {[id |-> newId, email |-> Lower(email), quiz_data |-> NoJson,
                             core_type |-> ScalarColumnsOf(results),
                             pdf_url |-> pdfUrl, s3_key |-> NoKey, created_at |-> now,
                             updated_at |-> now]},
        id |-> newId]

\* updateQuizResultPDF(resultId, pdfUrl): update({pdf_url}).eq('id', resultId)
updateQuizResultPDF(rows, resultId, pdfUrl, db) ==
  IF db # "ok" THEN [success |-> FALSE, rows |-> rows]
  ELSE [success |-> TRUE,
        rows |-> {IF r.id = resultId THEN [r EXCEPT !.pdf_url = pdfUrl] ELSE r : r \in rows}]

\* a createPdfDownloadToken on a table whose token column is not UNIQUE
createPdfDownloadTokenNotUnique(rows, token, email, s3Key, expiresInHours, db) ==
  IF db # "ok" \/ email \notin EmailStrings
  THEN [success |-> FALSE, rows |-> rows, token |-> NoToken]
  ELSE [success |-> TRUE,
        rows |-> rows \cup {[token |-> token, email |-> Lower(email), s3_key |-> s3Key,
                             expires_at |-> now + expiresInHours]},
        token |-> token]

\* createPdfDownloadToken({email, s3Key, expiresInHours}): a random token,
\* expiresAt = now + expiresInHours, insert; token is UNIQUE
createPdfDownloadToken(rows, token, email, s3Key, expiresInHours, db) ==
  IF db # "ok" \/ email \notin EmailStrings \/ (\E l \in rows : l.token = token)
  THEN [success |-> FALSE, rows |-> rows, token |-> NoToken]
  ELSE [success |-> TRUE,
        rows |-> rows \cup {[token |-> token, email |-> Lower(email), s3_key |-> s3Key,
                             expires_at |-> now + expiresInHours]},
        token |-> token]

\* a getPdfLinkByToken without the rows.length === 0 test
getPdfLinkByTokenNoEmptyTest(token, db) ==
  LET found == {l \in links : l.token = token}
  IN IF db # "ok"
     THEN [success |-> FALSE, record |-> [s3_key |-> NoKey, expires_at |-> 0]]
     ELSE IF found = {}
     THEN [success |-> TRUE, record |-> [s3_key |-> NoKey, expires_at |-> 0]]
     ELSE LET l == CHOOSE x \in found : TRUE
          IN [success |-> TRUE, record |-> [s3_key |-> l.s3_key, expires_at |-> l.expires_at]]

\* getPdfLinkByToken: SELECT * FROM pdf_download_tokens WHERE token = ? LIMIT 1
getPdfLinkByToken(token, db) ==
  LET found == {l \in links : l.token = token}
  IN IF db # "ok" \/ found = {}
     THEN [success |-> FALSE, record |-> [s3_key |-> NoKey, expires_at |-> 0]]
     ELSE LET l == CHOOSE x \in found : TRUE
          IN [success |-> TRUE, record |-> [s3_key |-> l.s3_key, expires_at |-> l.expires_at]]

\* what the SELECT of getPdfLinkByToken leaves in the token table
getPdfLinkByTokenRows(token) == links

\* GET /download (supabase): if (now > expiresAt) return res.status(410)
LinkHasExpired(expiresAt) == now > expiresAt

\* ------------------------------------------------------------- the clock
Advance(d) ==
  /\ resp = NoResp
  /\ ticks < MaxTicks
  /\ ticks' = ticks + 1
  /\ now' = now + d
  /\ UNCHANGED <<pool, quiz, saved, backend, nextId, quiz_results, tokens, links, tasks, reply,
                 resp, files, timers, s3, ghl, seen>>

\* the links rejected so far because their expiry had passed (history)
Observed(r) ==
  IF r.h # "download" THEN {}
  ELSE IF r.status \in {404, 410} /\ r.cond = "expired" /\ r.db = "ok"
  THEN {<<r.tok, "expired">>}
  ELSE {}

\* res.json / res.redirect has ended the response
ResponseSent ==
  /\ resp # NoResp
  /\ resp' = NoResp
  /\ seen' = seen \cup Observed(resp)
  /\ UNCHANGED <<pool, quiz, saved, backend, now, ticks, nextId, quiz_results, tokens, links,
                 tasks, reply, files, timers, s3, ghl>>

\* setTimeout(() => { if (fs.existsSync(pdfPath)) fs.unlinkSync(pdfPath) }, 5000)
TimerFires(id) ==
  /\ resp = NoResp
  /\ id \in timers
  /\ timers' = timers \ {id}
  /\ files' = files \ {id}
  /\ UNCHANGED <<pool, quiz, saved, backend, now, ticks, nextId, quiz_results, tokens, links,
                 tasks, reply, resp, s3, ghl, seen>>

\* --------------------------------------------- generatePDFInBackground
\* stage 1: generatePDFFromComponent
BgRender(id) ==
  /\ resp = NoResp
  /\ tasks[id].pc = "render"
  /\ \E ok \in BOOLEAN :
       LET pdfResult == generatePDFFromComponent(ok)
       IN /\ tasks' = [tasks EXCEPT ![id].runs = Bump(@, "render"),
                                    ![id].pc = IF pdfResult.success THEN "upload"
                                               ELSE BgAfterThrow("render")]
          /\ files' = IF pdfResult.success THEN files \cup {id} ELSE files
  /\ UNCHANGED <<pool, quiz, saved, backend, now, ticks, nextId, quiz_results, tokens, links,
                 reply, resp, timers, s3, ghl, seen>>

\* stage 2: uploadPDFToS3 (readFileSync of the temp file, then PutObject)
BgUpload(id) ==
  /\ resp = NoResp
  /\ tasks[id].pc = "upload"
  /\ \E ok \in BOOLEAN :
       LET s3Result == uploadPDFToS3(PdfFileName(id), ok /\ id \in files)
       IN /\ tasks' = [tasks EXCEPT ![id].runs = Bump(@, "upload"),
                                    ![id].key = s3Result.key,
                                    ![id].pc = IF ~s3Result.success THEN BgAfterThrow("upload")
                                               ELSE IF backend = "postgres" THEN "token"
                                               ELSE "attach"]
          /\ s3' = IF s3Result.success THEN s3 \cup {s3Result.key} ELSE s3
  /\ UNCHANGED <<pool, quiz, saved, backend, now, ticks, nextId, quiz_results, tokens, links,
                 reply, resp, files, timers, ghl, seen>>

\* stage 3 (supabase only): updateQuizResultPDF(resultId, s3Result.url); the
\* postgres pipeline has a log line in its place
SbBgAttach(id) ==
  /\ resp = NoResp
  /\ backend = "supabase"
  /\ tasks[id].pc = "attach"
  /\ \E db \in {"ok", "query_error"} :
       LET updateResult == updateQuizResultPDF(quiz_results, id, UrlOf(tasks[id].key), db)
       IN /\ quiz_results' = updateResult.rows
          /\ tasks' = [tasks EXCEPT ![id].runs = Bump(@, "attach"),
                                    ![id].pc = IF updateResult.success THEN "token"
                                               ELSE BgAfterThrow("attach")]
  /\ UNCHANGED <<pool, quiz, saved, backend, now, ticks, nextId, tokens, links, reply, resp, files,
                 timers, s3, ghl, seen>>

\* stage 4 (postgres): uuidv4 token, createDownloadToken(token, resultId,
\* now + 7 days); a failed insert is only warned about and skips the notify
PgBgToken(id) ==
  /\ resp = NoResp
  /\ backend = "postgres"
  /\ tasks[id].pc = "token"
  /\ \E token \in TokenStrs, db \in DbStates :
       LET expiresAt == now + TokenTtlHours
           tokenResult == createDownloadToken(tokens, token, id, expiresAt, db)
       IN IF ConnectThrows(db)
          THEN /\ tasks' = [tasks EXCEPT ![id].runs = Bump(@, "token"),
                                         ![id].pc = BgAfterThrow("token")]
               /\ UNCHANGED <<tokens, timers>>
          ELSE /\ tokens' = tokenResult.rows
               /\ tasks' = [tasks EXCEPT ![id].runs = Bump(@, "token"),
                                         ![id].tok = IF tokenResult.success THEN token ELSE NoToken,
                                         ![id].pc = IF tokenResult.success THEN "notify" ELSE "done"]
               /\ timers' = IF tokenResult.success THEN timers ELSE timers \cup {id}
  /\ UNCHANGED <<pool, quiz, saved, backend, now, ticks, nextId, quiz_results, links, reply, resp,
                 files, s3, ghl, seen>>

\* stage 4 (supabase): createPdfDownloadToken({email, s3Key: s3Result.key,
\* expiresInHours: 7})
SbBgToken(id) ==
  /\ resp = NoResp
  /\ backend = "supabase"
  /\ tasks[id].pc = "token"
  /\ \E token \in TokenStrs, db \in {"ok", "query_error"} :
       LET tokenResult == createPdfDownloadToken(links, token, RowEmail(id), tasks[id].key,
                                                 LinkTtlHours, db)
       IN /\ links' = tokenResult.rows
          /\ tasks' = [tasks EXCEPT ![id].runs = Bump(@, "token"),
                                    ![id].tok = tokenResult.token,
                                    ![id].pc = IF tokenResult.success THEN "notify" ELSE "done"]
          /\ timers' = IF tokenResult.success THEN timers ELSE timers \cup {id}
  /\ UNCHANGED <<pool, quiz, saved, backend, now, ticks, nextId, quiz_results, tokens, reply, resp,
                 files, s3, ghl, seen>>

\* stage 5: notifyGhlWithDownloadLink, then the cleanup timer is armed
BgNotify(id) ==
  /\ resp = NoResp
  /\ tasks[id].pc = "notify"
  /\ \E ok \in BOOLEAN :
       LET ghlResult == notifyGhlWithDownloadLink(RowEmail(id), tasks[id].tok, ok)
       IN ghl' = IF ghlResult.success
                 THEN ghl \cup {[id |-> id, token |-> tasks[id].tok]}
                 ELSE ghl
  /\ tasks' = [tasks EXCEPT ![id].runs = Bump(@, "notify"), ![id].pc = "done"]
  /\ timers' = timers \cup {id}
  /\ UNCHANGED <<pool, quiz, saved, backend, now, ticks, nextId, quiz_results, tokens, links,
                 reply, resp, files, s3, seen>>

\* ------------------------------------------------------------- handlers
\* POST /api/quiz/save-results (postgres)
PgSaveResults(email, results) ==
  /\ resp = NoResp
  /\ backend = "postgres"
  /\ IF MissingFields(email, results)
     THEN /\ resp' = [Respond("save-results", 400, "Missing required fields")
                        EXCEPT !.valid = ~(email = NoEmail \/ results = NoResults)]
          /\ UNCHANGED <<nextId, quiz_results, tasks, reply>>
     ELSE /\ nextId <= MaxIds
          /\ nextId' = nextId + 1
          /\ \E db \in DbStates, promise \in PromiseStates :
               LET resultId == nextId
                   dbResult == saveQuizResult(quiz_results, resultId, email, results, NoUrl, NoKey, db)
                   saveDone == ~ConnectThrows(db) /\ dbResult.success
                   out == saveResultsOutcome(saveDone)
               IN /\ quiz_results' = IF ConnectThrows(db) THEN quiz_results ELSE dbResult.rows
                  /\ reply' = [reply EXCEPT ![resultId] = out.status]
                  /\ resp' = [Respond("save-results", out.status,
                                      IF out.status = 200 THEN "Results saved" ELSE "save failed")
                                EXCEPT !.valid = ~(email = NoEmail \/ results = NoResults),
                                       !.saveOk = saveDone, !.rid = resultId,
                                       !.sent = saveResultsWrites(out.status, promise),
                                       !.after = IF out.spawn THEN promise ELSE ""]
                  /\ tasks' = IF out.spawn
                              THEN [tasks EXCEPT ![resultId] = [NoTask EXCEPT !.pc = "render"]]
                              ELSE tasks
  /\ UNCHANGED <<pool, quiz, saved, backend, now, ticks, tokens, links, files, timers, s3, ghl, seen>>

\* POST /api/quiz/save-results (supabase): the pipeline gets the id of the
\* row the store returned
SbSaveResults(email, results) ==
  /\ resp = NoResp
  /\ backend = "supabase"
  /\ IF MissingFields(email, results)
     THEN /\ resp' = [Respond("save-results", 400, "Missing required fields")
                        EXCEPT !.valid = ~(email = NoEmail \/ results = NoResults)]
          /\ UNCHANGED <<nextId, quiz_results, tasks, reply>>
     ELSE /\ nextId <= MaxIds
          /\ nextId' = nextId + 1
          /\ \E db \in {"ok", "query_error"}, promise \in PromiseStates :
               LET dbResult == saveQuizResultSupabase(quiz_results, nextId, email, results, NoUrl, db)
                   savedResultId == nextId
                   out == saveResultsOutcome(dbResult.success)
               IN /\ quiz_results' = dbResult.rows
                  /\ reply' = [reply EXCEPT ![savedResultId] = out.status]
                  /\ resp' = [Respond("save-results", out.status,
                                      IF out.status = 200 THEN "Results saved" ELSE "save failed")
                                EXCEPT !.valid = ~(email = NoEmail \/ results = NoResults),
                                       !.saveOk = dbResult.success, !.rid = savedResultId,
                                       !.sent = saveResultsWrites(out.status, promise),
                                       !.after = IF out.spawn THEN promise ELSE ""]
                  /\ tasks' = IF out.spawn
                              THEN [tasks EXCEPT ![savedResultId] = [NoTask EXCEPT !.pc = "render"]]
                              ELSE tasks
  /\ UNCHANGED <<pool, quiz, saved, backend, now, ticks, tokens, links, files, timers, s3, ghl, seen>>

\* GET /download (postgres): the response computed from the request
PgDownloadResponse(token, db, presignOk) ==
  IF token = NoToken THEN Respond("download", 400, "Missing token")
  ELSE IF ConnectThrows(db) THEN Respond("download", 500, "Internal server error")
  ELSE LET linkResult == verifyDownloadToken(token, db)
           record == linkResult.data
           urlResult == generatePresignedPdfUrl(record.s3_key, presignOk)
       IN IF ~linkResult.success
          THEN Respond("download", 404, "Invalid or unknown link")
          ELSE IF ~urlResult.success
          THEN [Respond("download", 500, "Could not generate download link") EXCEPT !.key = record.s3_key]
          ELSE [Respond("download", 302, "redirect") EXCEPT !.key = record.s3_key]

\* GET /download (supabase): lookup, then the handler's own expiry test
SbDownloadResponse(token, db, presignOk) ==
  IF token = NoToken THEN Respond("download", 400, "Missing token")
  ELSE LET linkResult == getPdfLinkByToken(token, db)
           record == linkResult.record
           urlResult == generatePresignedPdfUrl(record.s3_key, presignOk)
       IN IF ~linkResult.success
          THEN Respond("download", 404, "Invalid or unknown link")
          ELSE IF LinkHasExpired(record.expires_at)
          THEN Respond("download", 410, "Link has expired")
          ELSE IF ~urlResult.success
          THEN [Respond("download", 500, "Could not generate download link") EXCEPT !.key = record.s3_key]
          ELSE [Respond("download", 302, "redirect") EXCEPT !.key = record.s3_key]

PgDownload(token) ==
  /\ resp = NoResp
  /\ backend = "postgres"
  /\ \E db \in DbStates :
     \E presignOk \in (IF verifyDownloadToken(token, db).success THEN BOOLEAN ELSE {TRUE}) :
       LET r == PgDownloadResponse(token, db, presignOk)
       IN /\ resp' = [r EXCEPT !.tok = token, !.cond = TokenCond(token), !.db = db,
                               !.presignOk = presignOk]
          /\ tokens' = IF token = NoToken \/ ConnectThrows(db) THEN tokens
                       ELSE verifyDownloadTokenRows(token)
  /\ UNCHANGED <<pool, quiz, saved, backend, now, ticks, nextId, quiz_results, links, tasks, reply,
                 files, timers, s3, ghl, seen>>

SbDownload(token) ==
  /\ resp = NoResp
  /\ backend = "supabase"
  /\ \E db \in {"ok", "query_error"} :
     \E presignOk \in (IF getPdfLinkByToken(token, db).success THEN BOOLEAN ELSE {TRUE}) :
       LET r == SbDownloadResponse(token, db, presignOk)
       IN /\ resp' = [r EXCEPT !.tok = token, !.cond = TokenCond(token), !.db = db,
                               !.presignOk = presignOk]
  /\ links' = IF token = NoToken THEN links ELSE getPdfLinkByTokenRows(token)
  /\ UNCHANGED <<pool, quiz, saved, backend, now, ticks, nextId, quiz_results, tokens, tasks, reply,
                 files, timers, s3, ghl, seen>>

\* POST /api/quiz/generate-pdf (postgres).  The handler still calls
\* saveQuizResult(email, results, s3Result.url): on the six-parameter
\* function that is id = email, email = results, results = undefined.
PgGeneratePdf(email, results) ==
  /\ resp = NoResp
  /\ backend = "postgres"
  /\ IF MissingFields(email, results)
     THEN /\ resp' = [Respond("generate-pdf", 400, "Missing required fields")
                        EXCEPT !.valid = ~(email = NoEmail \/ results = NoResults)]
          /\ UNCHANGED <<nextId, quiz_results, tokens, files, timers, s3, ghl>>
     ELSE /\ nextId <= MaxIds
          /\ nextId' = nextId + 1
          /\ LET resultId == nextId
                 valid == ~(email = NoEmail \/ results = NoResults)
             IN \E renderOk \in BOOLEAN :
                LET pdfResult == generatePDFFromComponent(renderOk)
                IN IF ~pdfResult.success
                   THEN /\ resp' = [Respond("generate-pdf", 500, "PDF generation failed")
                                      EXCEPT !.valid = valid, !.renderOk = FALSE]
                        /\ UNCHANGED <<quiz_results, tokens, files, timers, s3, ghl>>
                   ELSE \E uploadOk \in BOOLEAN :
                        LET s3Result == uploadPDFToS3(PdfFileName(resultId), uploadOk)
                        IN IF ~s3Result.success
                           THEN /\ resp' = [Respond("generate-pdf", 500, "S3 upload failed")
                                              EXCEPT !.valid = valid]
                                /\ files' = files \cup {resultId}
                                /\ UNCHANGED <<quiz_results, tokens, timers, s3, ghl>>
                           ELSE \E db \in DbStates :
                                IF ConnectThrows(db)
                                THEN /\ resp' = [Respond("generate-pdf", 500, "connect failed")
                                                   EXCEPT !.valid = valid, !.saveOk = FALSE]
                                     /\ files' = files \cup {resultId}
                                     /\ s3' = s3 \cup {s3Result.key}
                                     /\ UNCHANGED <<quiz_results, tokens, timers, ghl>>
                                ELSE \E token \in TokenStrs :
                                     LET dbResult == saveQuizResult(quiz_results, email, results,
                                                                    NoResults, NoUrl, NoKey, db)
                                         expiresAt == now + TokenTtlHours
                                         tokenResult == createDownloadToken(tokens, token, resultId,
                                                                            expiresAt, db)
                                     IN \E notifyOk \in (IF tokenResult.success THEN BOOLEAN ELSE {TRUE}) :
                                        LET ghlResult == notifyGhlWithDownloadLink(email, token, notifyOk)
                                        IN /\ quiz_results' = dbResult.rows
                                           /\ tokens' = tokenResult.rows
                                           /\ ghl' = IF tokenResult.success /\ ghlResult.success
                                                     THEN ghl \cup {[id |-> resultId, token |-> token]}
                                                     ELSE ghl
                                           /\ files' = files \cup {resultId}
                                           /\ s3' = s3 \cup {s3Result.key}
                                           /\ timers' = timers \cup {resultId}
                                           /\ resp' = [Respond("generate-pdf", 200,
                                                               "Full PDF generated and uploaded to S3")
                                                         EXCEPT !.valid = valid,
                                                                !.saveOk = dbResult.success]
  /\ UNCHANGED <<pool, quiz, saved, backend, now, ticks, links, tasks, reply, seen>>

\* has the pipeline of result id rid produced the PDF (ghost classification)
PdfReady(rid) ==
  IF tasks[rid].pc \in {"render", "upload"} THEN "not-ready"
  ELSE IF tasks[rid].pc = "done" /\ tasks[rid].key # NoKey THEN "ready"
  ELSE "n/a"

\* POST /api/ghl/get-pdf (postgres)
PgGetPdf(email) ==
  /\ resp = NoResp
  /\ backend = "postgres"
  /\ IF email = NoEmail
     THEN resp' = [Respond("get-pdf", 400, "Missing required field: email") EXCEPT !.valid = FALSE]
     ELSE \E db \in DbStates :
          IF ConnectThrows(db)
          THEN resp' = Respond("get-pdf", 500, "connect failed")
          ELSE \E result \in getQuizResultByEmail(email, db) :
                 resp' = IF ~result.success
                         THEN Respond("get-pdf", 404, "No quiz results found for this email")
                         ELSE [Respond("get-pdf", 200, "success") EXCEPT
                                 !.rid = result.data.id, !.pdfUrl = result.data.pdf_url,
                                 !.ready = PdfReady(result.data.id)]
  /\ UNCHANGED <<pool, quiz, saved, backend, now, ticks, nextId, quiz_results, tokens, links, tasks,
                 reply, files, timers, s3, ghl, seen>>

\* POST /api/quiz/submit-new.  calculateAllResults(answers) is the scoring
\* engine; the handler calls saveQuizResult({quiz_id, email, ...}) with one
\* object, so id is that object and the email parameter is undefined, and it
\* does not look at the value the call returns.  The answers of a request are
\* not spelled out here: whether the engine throws on them is drawn.
PgSubmitNew(answers, email) ==
  /\ resp = NoResp
  /\ backend = "postgres"
  /\ IF answers = NoResults
     THEN /\ resp' = [Respond("submit-new", 400, "Answers are required") EXCEPT !.valid = FALSE]
          /\ UNCHANGED quiz_results
     ELSE \E scoringThrows \in BOOLEAN, db \in DbStates :
          IF scoringThrows
          THEN /\ resp' = Respond("submit-new", 500, "Failed to process quiz submission")
               /\ UNCHANGED quiz_results
          ELSE IF email = NoEmail
          THEN /\ resp' = Respond("submit-new", 200, "results")
               /\ UNCHANGED quiz_results
          ELSE IF ConnectThrows(db)
          THEN /\ resp' = [Respond("submit-new", 500, "Failed to process quiz submission")
                            EXCEPT !.saveOk = FALSE]
               /\ UNCHANGED quiz_results
          ELSE LET dbResult == saveQuizResult(quiz_results, "object", NoEmail, "scored",
                                              NoUrl, NoKey, db)
               IN /\ resp' = [Respond("submit-new", 200, "results") EXCEPT !.saveOk = dbResult.success]
                  /\ quiz_results' = dbResult.rows
  /\ UNCHANGED <<pool, quiz, saved, backend, now, ticks, nextId, tokens, links, tasks,
                 reply, files, timers, s3, ghl, seen>>

\* POST /api/quiz/download-pdf: render to a temp file and stream it.  The
\* cleanup timer is armed when the response has finished; a failed render
\* throws into the catch, a stream error deletes the file at once and
\* answers 500 unless the headers have gone out with the first chunk.
PgDownloadPdf(results) ==
  /\ resp = NoResp
  /\ backend = "postgres"
  /\ IF results = NoResults
     THEN /\ resp' = [Respond("download-pdf", 400, "Results data is required")
                        EXCEPT !.valid = FALSE]
          /\ UNCHANGED <<nextId, files, timers>>
     ELSE /\ nextId <= MaxIds
          /\ nextId' = nextId + 1
          /\ \E renderOk \in BOOLEAN, stream \in StreamOutcomes :
               LET pdfResult == generatePDFFromComponent(renderOk)
                   headersSent == HeadersSentAt(stream)
               IN IF ~pdfResult.success
                  THEN /\ resp' = [Respond("download-pdf", 500, "PDF generation failed")
                                     EXCEPT !.renderOk = FALSE]
                       /\ UNCHANGED <<files, timers>>
                  ELSE IF stream = "open_error"
                  THEN /\ resp' = [Respond("download-pdf", 500, "Failed to stream PDF")
                                     EXCEPT !.sent = IF SendsError(headersSent) THEN 1 ELSE 0]
                       /\ UNCHANGED <<files, timers>>
                  ELSE IF stream = "read_error"
                  THEN /\ resp' = [Respond("download-pdf", 200, "application/pdf")
                                     EXCEPT !.after = "stream_error",
                                            !.sent = IF SendsError(headersSent) THEN 2 ELSE 1]
                       /\ UNCHANGED <<files, timers>>
                  ELSE /\ resp' = Respond("download-pdf", 200, "application/pdf")
                       /\ files' = files \cup {nextId}
                       /\ timers' = timers \cup {nextId}
  /\ UNCHANGED <<pool, quiz, saved, backend, now, ticks, quiz_results, tokens, links, tasks, reply,
                 s3, ghl, seen>>

\* ------------------------------------------------------------------ spec
Init ==
  /\ backend \in Backends
  /\ now = 0
  /\ ticks = 0
  /\ nextId = 1
  /\ quiz_results = {}
  /\ tokens = {}
  /\ links = {}
  /\ tasks = [i \in Ids |-> NoTask]
  /\ reply = [i \in Ids |-> 0]
  /\ resp = NoResp
  /\ files = {}
  /\ timers = {}
  /\ s3 = {}
  /\ ghl = {}
  /\ seen = {}
  /\ saved = <<>>
  /\ pool = NoPool
  /\ quiz = NoQuiz

Next ==
  \/ \E d \in ClockSteps(backend) : Advance(d)
  \/ ResponseSent
  \/ \E id \in Ids : TimerFires(id)
  \/ \E e \in RawEmails \cup {NoEmail}, r \in Payloads \cup {NoResults} : PgSaveResults(e, r)
  \/ \E e \in RawEmails \cup {NoEmail}, r \in Payloads \cup {NoResults} : SbSaveResults(e, r)
  \/ \E id \in Ids : BgRender(id)
  \/ \E id \in Ids : BgUpload(id)
  \/ \E id \in Ids : SbBgAttach(id)
  \/ \E id \in Ids : PgBgToken(id)
  \/ \E id \in Ids : SbBgToken(id)
  \/ \E id \in Ids : BgNotify(id)
  \/ \E t \in TokenStrs \cup {NoToken} : PgDownload(t)
  \/ \E t \in TokenStrs \cup {NoToken} : SbDownload(t)
  \/ \E e \in RawEmails \cup {NoEmail}, r \in Payloads \cup {NoResults} : PgGeneratePdf(e, r)
  \/ \E e \in RawEmails \cup {NoEmail} : PgGetPdf(e)
  \/ \E a \in Payloads \cup {NoResults}, e \in RawEmails \cup {NoEmail} : PgSubmitNew(a, e)
  \/ \E r \in Payloads \cup {NoResults} : PgDownloadPdf(r)

Spec == Init /\ [][Next]_vars

\* ================================================================ claims
\* GET /download as deployed
DownloadResponse(token, db, presignOk) ==
  IF backend = "postgres" THEN PgDownloadResponse(token, db, presignOk)
  ELSE SbDownloadResponse(token, db, presignOk)

\* the s3 keys a redemption of tok finds bound to it
BoundKeys(tok) ==
  IF backend = "postgres"
  THEN {p[2].s3_key : p \in {x \in tokens \X quiz_results :
                               x[1].token = tok /\ x[1].quiz_result_id = x[2].id}}
  ELSE {l.s3_key : l \in {x \in links : x.token = tok}}

\* C1: every token the background pipeline issued is bound to the key its
\* upload returned, and a /download that redirects signed exactly that key.
C1_TokenBoundToUploadedKey ==
  /\ \A id \in Ids :
       tasks[id].tok # NoToken => BoundKeys(tasks[id].tok) = {tasks[id].key}
  /\ (resp.h = "download" /\ resp.status = 302)
       => \A id \in Ids : tasks[id].tok = resp.tok => resp.key = tasks[id].key

\* C2: a token presented at the very instant now = expiresAt is rejected.
C2_BoundaryRejected ==
  (resp.h = "download" /\ resp.cond = "boundary") => resp.status # 302

\* the four failure cases of GET /download
DownloadCase(token, presignOk) ==
  CASE TokenCond(token) = "missing" -> "missing"
    [] TokenCond(token) = "unknown" -> "unknown"
    [] TokenCond(token) = "expired" -> "expired"
    [] TokenCond(token) = "active" /\ ~presignOk -> "presign-failure"
    [] OTHER -> "none"

\* C3: missing, unknown, expired token and presign failure get four
\* responses that differ pairwise in status or body.
C3_FourDistinctResponses ==
  \A t1, t2 \in TokenStrs \cup {NoToken} : \A p1, p2 \in BOOLEAN :
    LET r1 == DownloadResponse(t1, "ok", p1)
        r2 == DownloadResponse(t2, "ok", p2)
    IN (/\ DownloadCase(t1, p1) # "none"
        /\ DownloadCase(t2, p2) # "none"
        /\ DownloadCase(t1, p1) # DownloadCase(t2, p2))
       => <<r1.status, r1.body>> # <<r2.status, r2.body>>

\* C4: a token whose holder has once been told it is expired is never
\* redirected afterwards, however the clock and the tables move on.
C4_ExpiredIsTerminal ==
  (resp.h = "download" /\ resp.status = 302)
    => (resp.cond # "expired" /\ <<resp.tok, "expired">> \notin seen)

\* an expired token is presented again after its first rejection
C4_Witness ==
  /\ resp.h = "download"
  /\ resp.cond = "expired"
  /\ resp.status \in {404, 410}
  /\ <<resp.tok, "expired">> \in seen

\* the step hands out a token: stage 4 of a pipeline or generate-pdf
IssuanceStep ==
  \/ \E id \in Ids : tasks[id].pc = "token" /\ tasks'[id].pc # "token"
  \/ resp'.h = "generate-pdf"

\* presenting the token of the last /download once more gives the same answer
RepeatedRedemptionSame ==
  resp.h = "download" =>
    LET again == DownloadResponse(resp.tok, resp.db, resp.presignOk)
    IN <<again.status, again.body, again.key>> = <<resp.status, resp.body, resp.key>>

C6_RespondsAfterPersistBeforeRender ==
  [][/\ \A id \in Ids : reply[id] # 0 => reply'[id] = reply[id]
     /\ (resp'.h = "save-results" /\ resp'.status = 200) =>
          /\ \E q \in quiz_results' : q.id = resp'.rid
          /\ tasks[resp'.rid].pc = "none"
          /\ tasks'[resp'.rid].pc = "render"
          /\ tasks'[resp'.rid].runs = ZeroRuns
     /\ \A id \in Ids : tasks'[id].pc # "none" => reply'[id] = 200]_vars

\* a submission answered 200 whose pipeline later failed
C6_Witness ==
  \E id \in Ids : reply[id] = 200 /\ tasks[id].pc = "failed" /\ tasks[id].runs["render"] = 1

\* a step of the detached pipeline of some submission
TaskStep == \E id \in Ids : tasks[id].pc \in Stages /\ tasks'[id] # tasks[id]

\* C7: the detached pipeline runs every stage at most once, a failure at any
\* stage ends it for good (caught, not rethrown, not retried), and none of
\* its steps sends a response or changes the answer the caller got.
C7_FireOnceLogAndDrop ==
  [][/\ \A id \in Ids : \A st \in Stages : tasks'[id].runs[st] <= 1
     /\ \A id \in Ids : tasks'[id].pc \in Stages \cup {"none", "done", "failed"}
     /\ \A id \in Ids : tasks[id].pc \in {"failed", "done"} => tasks'[id] = tasks[id]
     /\ TaskStep => (resp' = NoResp /\ reply' = reply)]_vars

\* a pipeline that failed at the upload stage after a good render
C7_Witness ==
  \E id \in Ids : /\ tasks[id].pc = "failed"
                  /\ tasks[id].runs["upload"] = 1
                  /\ tasks[id].key = NoKey

\* C8: get-pdf asked before the pipeline has finished gives an answer that
\* can be told from the answer given once the PDF is ready: while not ready
\* the pdfUrl is null, once ready it is not.
C8_NotReadyDistinguishable ==
  (resp.h = "get-pdf" /\ resp.status = 200) =>
     /\ resp.ready = "not-ready" => resp.pdfUrl = NoUrl
     /\ resp.ready = "ready" => resp.pdfUrl # NoUrl

\* everything a handler can leave behind
SideEffects == <<nextId, quiz_results, tokens, links, tasks, reply, files, timers, s3, ghl>>

\* C9: save-results and generate-pdf without email or results, and
\* submit-new without answers, are answered 400 with no side effect at all.
C9_ValidationBeforeSideEffects ==
  [][(resp'.h \in {"save-results", "generate-pdf", "submit-new"} /\ ~resp'.valid)
       => (resp'.status = 400 /\ SideEffects' = SideEffects)]_vars

\* a request without its required fields has been answered, with results of
\* earlier submissions in the table
C9_Witness ==
  /\ resp.h \in {"save-results", "generate-pdf", "submit-new"}
  /\ ~resp.valid
  /\ resp.status = 400
  /\ quiz_results # {}

\* C10: in save-results, generate-pdf and submit-new a failed save or a
\* failed render is answered with a failure, never with a success.
C10_FailureSurfaced ==
  (resp.h \in {"save-results", "generate-pdf", "submit-new"}
     /\ (~resp.saveOk \/ ~resp.renderOk)) => resp.status >= 400

\* ============================================ the persistence collaborator
\* The three stores of the repository behind the same persistence interface,
\* driven call by call: postgres-db.js, supabase-db.js and aurora-db.js.
Stores == Backends \cup {"aurora"}
StorePayloads == {"r1", "r2"}
\* the emails of the calls on the store: one address in two spellings, and
\* an address that holds the other as a substring
StoreEmails == RawEmails \cup {"joann"}

\* aurora-db.js saveQuizResult(id, email, name, results, pdfUrl, s3Key): a
\* plain INSERT of the scalar columns (id is the primary key); created_at and
\* updated_at default to CURRENT_TIMESTAMP
saveQuizResultAurora(rows, id, email, results, pdfUrl, s3Key, db) ==
  IF \/ db # "ok" \/ email \notin EmailStrings \/ results = NoResults
     \/ \E r \in rows : r.id = id
  THEN [success |-> FALSE, rows |-> rows, id |-> 0]
  ELSE [success |-> TRUE,
        rows |-> rows \cup {[id |-> id, email |-> Lower(email), quiz_data |-> NoJson,
                             core_type |-> ScalarColumnsOf(results),
                             pdf_url |-> pdfUrl, s3_key |-> s3Key, created_at |-> now,
                             updated_at |-> now]},
        id |-> id]

\* supabase-db.js / aurora-db.js getQuizResultByEmail: WHERE email =
\* email.toLowerCase() ORDER BY created_at DESC LIMIT 1 (rows with equal
\* created_at come back in an order the store does not fix)
getQuizResultByEmailLower(email, db) ==
  LET hit == Latest({r \in quiz_results : r.email = Lower(email)})
  IN IF db # "ok" \/ email \notin EmailStrings \/ hit = {}
     THEN {[success |-> FALSE, data |-> NoRow]}
     ELSE {[success |-> TRUE, data |-> r] : r \in hit}

\* an updateQuizResultPDF that stamps updated_at on every call
updateQuizResultPDFAuroraStamps(rows, resultId, pdfUrl, s3Key, db) ==
  IF db # "ok" THEN [success |-> FALSE, rows |-> rows]
  ELSE [success |-> TRUE,
        rows |-> {IF r.id = resultId
                  THEN [r EXCEPT !.pdf_url = pdfUrl, !.s3_key = s3Key, !.updated_at = now]
                  ELSE r : r \in rows}]

\* aurora-db.js updateQuizResultPDF(resultId, pdfUrl, s3Key): UPDATE ... SET
\* pdf_url, s3_key WHERE id; the column updated_at is declared ON UPDATE
\* CURRENT_TIMESTAMP, which the store applies to a row whose values change
updateQuizResultPDFAurora(rows, resultId, pdfUrl, s3Key, db) ==
  IF db # "ok" THEN [success |-> FALSE, rows |-> rows]
  ELSE [success |-> TRUE,
        rows |-> {IF r.id = resultId /\ <<r.pdf_url, r.s3_key>> # <<pdfUrl, s3Key>>
                  THEN [r EXCEPT !.pdf_url = pdfUrl, !.s3_key = s3Key, !.updated_at = now]
                  ELSE r : r \in rows}]

\* the result of the last call made on the store
NoCall == [h |-> "none", email |-> NoEmail, id |-> 0, url |-> NoUrl, key |-> NoKey,
           db |-> "ok", success |-> TRUE, data |-> NoRow]

\* the payload a caller can read back from a fetched row
RowPayload(row) ==
  IF row.quiz_data # NoJson THEN JsonParse(row.quiz_data) ELSE row.core_type

StoreSaveResult(id, email, results, db) ==
  CASE backend = "postgres" -> saveQuizResult(quiz_results, id, email, results, NoUrl, NoKey, db)
    [] backend = "supabase" -> saveQuizResultSupabase(quiz_results, id, email, results, NoUrl, db)
    [] OTHER -> saveQuizResultAurora(quiz_results, id, email, results, NoUrl, NoKey, db)

\* saveQuizResult called with a fresh id
StoreSave(email, results) ==
  /\ nextId <= MaxIds
  /\ nextId' = nextId + 1
  /\ \E db \in {"ok", "query_error"} :
       LET dbResult == StoreSaveResult(nextId, email, results, db)
       IN /\ quiz_results' = dbResult.rows
          /\ saved' = IF dbResult.success
                      THEN Append(saved, [id |-> nextId, email |-> email, results |-> results])
                      ELSE saved
          /\ resp' = [NoCall EXCEPT !.h = "save", !.email = email, !.id = nextId, !.db = db,
                                    !.success = dbResult.success]
  /\ UNCHANGED <<pool, quiz, backend, now, ticks, tokens, links, tasks, reply, files, timers, s3,
                 ghl, seen>>

\* the email of the submission that result id was saved for
SubmittedEmail(id) ==
  LET made == SelectSeq(saved, LAMBDA x : x.id = id)
  IN IF made = <<>> THEN NoEmail ELSE made[1].email

\* saveQuizResult called once more for a submission that was saved, with the
\* id and the email of that submission; the supabase store assigns the ids
\* itself and takes none
StoreSaveAgain(id, email, results) ==
  /\ backend # "supabase"
  /\ id < nextId
  /\ Len(saved) < MaxSaves
  /\ \E db \in {"ok", "query_error"} :
       LET dbResult == StoreSaveResult(id, email, results, db)
       IN /\ quiz_results' = dbResult.rows
          /\ saved' = IF dbResult.success
                      THEN Append(saved, [id |-> id, email |-> email, results |-> results])
                      ELSE saved
          /\ resp' = [NoCall EXCEPT !.h = "save", !.email = email, !.id = id, !.db = db,
                                    !.success = dbResult.success]
  /\ UNCHANGED <<pool, quiz, backend, now, ticks, nextId, tokens, links, tasks, reply, files, timers,
                 s3, ghl, seen>>

\* getQuizResultByEmail
StoreGet(email) ==
  /\ \E db \in {"ok", "query_error"} :
     \E result \in (IF backend = "postgres" THEN getQuizResultByEmail(email, db)
                    ELSE getQuizResultByEmailLower(email, db)) :
       resp' = [NoCall EXCEPT !.h = "get", !.email = email, !.db = db,
                              !.success = result.success, !.data = result.data]
  /\ UNCHANGED <<pool, quiz, saved, backend, now, ticks, nextId, quiz_results, tokens, links, tasks,
                 reply, files, timers, s3, ghl, seen>>

StoreAttachResult(id, url, key, db) ==
  IF backend = "supabase" THEN updateQuizResultPDF(quiz_results, id, url, db)
  ELSE updateQuizResultPDFAurora(quiz_results, id, url, key, db)

\* updateQuizResultPDF (postgres-db.js has no such function)
StoreAttach(id, fileName) ==
  /\ backend # "postgres"
  /\ \E db \in {"ok", "query_error"} :
       LET key == S3KeyOf(fileName)
           updateResult == StoreAttachResult(id, UrlOf(key), key, db)
       IN /\ quiz_results' = updateResult.rows
          /\ resp' = [NoCall EXCEPT !.h = "attach", !.id = id, !.url = UrlOf(key), !.key = key,
                                    !.db = db, !.success = updateResult.success]
  /\ UNCHANGED <<pool, quiz, saved, backend, now, ticks, nextId, tokens, links, tasks, reply, files,
                 timers, s3, ghl, seen>>

\* time passes between two calls
StoreAdvance ==
  /\ ticks < MaxTicks
  /\ ticks' = ticks + 1
  /\ now' = now + 1
  /\ UNCHANGED <<pool, quiz, saved, backend, nextId, quiz_results, tokens, links, tasks, reply,
                 resp, files, timers, s3, ghl, seen>>

StoreInit ==
  /\ backend \in Stores
  /\ now = 0
  /\ ticks = 0
  /\ nextId = 1
  /\ quiz_results = {}
  /\ tokens = {}
  /\ links = {}
  /\ tasks = [i \in Ids |-> NoTask]
  /\ reply = [i \in Ids |-> 0]
  /\ resp = NoCall
  /\ files = {}
  /\ timers = {}
  /\ s3 = {}
  /\ ghl = {}
  /\ seen = {}
  /\ saved = <<>>
  /\ pool = NoPool
  /\ quiz = NoQuiz

StoreNext ==
  \/ \E e \in StoreEmails, r \in StorePayloads : StoreSave(e, r)
  \/ \E id \in Ids, r \in StorePayloads : StoreSaveAgain(id, SubmittedEmail(id), r)
  \/ \E e \in StoreEmails : StoreGet(e)
  \/ \E id \in Ids, f \in {PdfFileName(i) : i \in Ids} : StoreAttach(id, f)
  \/ StoreAdvance

StoreSpec == StoreInit /\ [][StoreNext]_vars

\* the saves made for email e, oldest first
SavesFor(e) == SelectSeq(saved, LAMBDA x : x.email = e)

\* C11: a fetch by email after successful saves for that email returns the
\* record of the most recently created of them, and the payload read back
\* equals the results object that save was given.
C11_RoundTripByEmail ==
  (resp.h = "get" /\ resp.db = "ok" /\ SavesFor(resp.email) # <<>>) =>
     LET last == SavesFor(resp.email)[Len(SavesFor(resp.email))]
     IN /\ resp.success
        /\ resp.data.id = last.id
        /\ RowPayload(resp.data) = last.results

\* a row without its artifact fields, and without the stamp the store keeps
\* for itself as well
WithoutArtifact(r) == [r EXCEPT !.pdf_url = NoUrl, !.s3_key = NoKey]
WithoutArtifactAndStamp(r) == [WithoutArtifact(r) EXCEPT !.updated_at = 0]

\* the attach made last, made once more now, changes nothing
RepeatedAttachSame ==
  resp.h = "attach" =>
    StoreAttachResult(resp.id, resp.url, resp.key, resp.db).rows = quiz_results

\* C12 as stated: updateQuizResultPDF creates no row, changes nothing but
\* pdf_url and s3_key of the addressed record, and made twice is as made once.
C12_AttachOnlyArtifactFields ==
  [][resp'.h = "attach" =>
       /\ Cardinality(quiz_results') = Cardinality(quiz_results)
       /\ \A r \in quiz_results : \E r2 \in quiz_results' :
            /\ r2.id = r.id
            /\ WithoutArtifact(r2) = WithoutArtifact(r)
            /\ r.id # resp'.id => r2 = r
       /\ RepeatedAttachSame']_vars

\* C12 amended: updateQuizResultPDF creates no row and changes nothing but
\* pdf_url, s3_key and the store's own updated_at stamp of the addressed
\* record; the same call made again, at once or later, changes nothing.
C12_AttachIdempotent ==
  [][/\ RepeatedAttachSame'
     /\ resp'.h = "attach" =>
          /\ Cardinality(quiz_results') = Cardinality(quiz_results)
          /\ saved' = saved
          /\ \A r \in quiz_results : \E r2 \in quiz_results' :
               /\ r2.id = r.id
               /\ WithoutArtifactAndStamp(r2) = WithoutArtifactAndStamp(r)
               /\ r.id # resp'.id => r2 = r]_vars

\* an artifact has been attached to one of two records, some time after the
\* record was created
C12_Witness ==
  /\ resp.h = "attach"
  /\ resp.success
  /\ Cardinality(quiz_results) = 2
  /\ \E r \in quiz_results :
       r.id = resp.id /\ r.pdf_url = resp.url /\ r.updated_at > r.created_at

\* C13: every token row is bound to an existing result record, and issuing
\* a token for a result id without a record fails and stores nothing; the
\* generate-pdf handler issues for an id it never saved, so it adds no row.
C13_TokensReferToResults ==
  [][/\ \A t \in tokens' : \E q \in quiz_results' : q.id = t.quiz_result_id
     /\ \A id \in Ids : \A tk \in TokenStrs :
          (~ \E q \in quiz_results : q.id = id) =>
             LET tokenResult == createDownloadToken(tokens, tk, id, now + TokenTtlHours, "ok")
             IN ~tokenResult.success /\ tokenResult.rows = tokens
     /\ resp'.h = "generate-pdf" => tokens' = tokens]_vars

\* generate-pdf has gone through its token step while a token issued by a
\* background pipeline is in the table
C13_Witness ==
  /\ resp.h = "generate-pdf"
  /\ resp.status = 200
  /\ tokens # {}
  /\ \E id \in Ids : tasks[id].tok # NoToken

\* C14: no two token rows carry the same token string, and an issuance with
\* a token string that is already in the table fails and leaves the table
\* as it was.
C14_TokenStringsUnique ==
  /\ \A t1, t2 \in tokens : t1.token = t2.token => t1 = t2
  /\ \A l1, l2 \in links : l1.token = l2.token => l1 = l2
  /\ \A t \in tokens : \A id \in Ids :
       LET tokenResult == createDownloadToken(tokens, t.token, id, now + TokenTtlHours, "ok")
       IN ~tokenResult.success /\ tokenResult.rows = tokens
  /\ \A l \in links : \A e \in RawEmails : \A id \in Ids :
       LET tokenResult == createPdfDownloadToken(links, l.token, e, S3KeyOf(PdfFileName(id)),
                                                 LinkTtlHours, "ok")
       IN ~tokenResult.success /\ tokenResult.rows = links

\* one pipeline holds a token and another has ended at its token step
\* without one
C14_Witness ==
  \E i, j \in Ids :
    /\ tasks[i].tok # NoToken
    /\ tasks[j].pc = "done" /\ tasks[j].key # NoKey /\ tasks[j].tok = NoToken
    /\ tasks[j].runs["token"] = 1

\* the lookup /download makes for a token
LookupSucceeds(token) ==
  IF backend = "postgres" THEN verifyDownloadToken(token, "ok").success
  ELSE getPdfLinkByToken(token, "ok").success

\* C15: a token that was never issued is answered, not thrown: the lookup
\* returns a failure result and the handler answers 404 "Invalid or unknown
\* link" (500 only when the store itself cannot be reached).
C15_UnknownTokenNotFound ==
  (resp.h = "download" /\ resp.cond = "unknown") =>
     /\ ~LookupSucceeds(resp.tok)
     /\ resp.status \in {404, 500}
     /\ resp.db # "connect_error" =>
          (resp.status = 404 /\ resp.body = "Invalid or unknown link")

\* a never-issued token has been presented while another token is on file
C15_Witness ==
  /\ resp.h = "download"
  /\ resp.cond = "unknown"
  /\ resp.db = "ok"
  /\ resp.status = 404
  /\ tokens \cup links # {}

\* ------------------------------------------------------- the scoring engine
\* An answer map is a JavaScript object: a question it does not hold reads as
\* undefined.  NumberFive is an answer value that is no string (the number 5
\* of a JSON body), "z" a string that is no option of any question.
Undefined == "<undefined>"
NumberFive == "<number 5>"
Ans(answers, qid) == IF qid \in DOMAIN answers THEN answers[qid] ELSE Undefined
Truthy(v) == v # Undefined /\ v # ""
IsString(v) == v # Undefined /\ v # NumberFive

L1Questions == <<"L1_Q1", "L1_Q2", "L1_Q3", "L1_Q4", "L1_Q5", "L1_Q6", "L1_Q7", "L1_Q8">>
L2Questions ==
  [architect |-> <<"L2_Q9", "L2_Q10", "L2_Q11", "L2_Q12", "L2_Q13", "L2_Q14", "L2_Q15", "L2_Q16">>,
   alchemist |-> <<"L2_Q9a", "L2_Q10a", "L2_Q11a", "L2_Q12a", "L2_Q13a", "L2_Q14a", "L2_Q15a",
                   "L2_Q16a">>,
   mixed |-> <<"L2_Qm9", "L2_Qm10", "L2_Qm11", "L2_Qm12", "L2_Qm13", "L2_Qm14", "L2_Qm15",
               "L2_Qm16">>]
L3Questions == <<"L3_Q17", "L3_Q18", "L3_Q19", "L3_Q20", "L3_Q21", "L3_Q22">>
L4Questions == <<"L4_Q23", "L4_Q24", "L4_Q25", "L4_Q26", "L4_Q27">>
L5Questions == <<"L5_Q28", "L5_Q29", "L5_Q30", "L5_Q31", "L5_Q32", "L5_Q33">>
L7Questions == <<"L7_Q40", "L7_Q41", "L7_Q42", "L7_Q43", "L7_Q44", "L7_Q45">>

Range(seq) == {seq[i] : i \in DOMAIN seq}
CountOf(answers, questions, v) ==
  Cardinality({i \in DOMAIN questions : Ans(answers, questions[i]) = v})

\* the classification of calculateLayer1 by the thresholds 6..8 of each side
\* instead of the exact pairs of counts
calculateLayer1Threshold(answers) ==
  LET architectCount == CountOf(answers, L1Questions, "a")
      alchemistCount == CountOf(answers, L1Questions, "b")
      type == CASE architectCount = 8 -> "Strong Architect"
                [] architectCount = 7 -> "Medium Architect"
                [] architectCount = 6 -> "Weak Architect"
                [] alchemistCount = 8 -> "Strong Alchemist"
                [] alchemistCount = 7 -> "Medium Alchemist"
                [] alchemistCount = 6 -> "Weak Alchemist"
                [] OTHER -> "Blurred"
  IN [type |-> type, architectCount |-> architectCount, alchemistCount |-> alchemistCount]

calculateLayer1(answers) ==
  LET architectCount == CountOf(answers, L1Questions, "a")
      alchemistCount == CountOf(answers, L1Questions, "b")
      type == CASE architectCount = 8 /\ alchemistCount = 0 -> "Strong Architect"
                [] architectCount = 7 /\ alchemistCount = 1 -> "Medium Architect"
                [] architectCount = 6 /\ alchemistCount = 2 -> "Weak Architect"
                [] architectCount = 0 /\ alchemistCount = 8 -> "Strong Alchemist"
                [] architectCount = 1 /\ alchemistCount = 7 -> "Medium Alchemist"
                [] architectCount = 2 /\ alchemistCount = 6 -> "Weak Alchemist"
                [] OTHER -> "Blurred"
  IN [type |-> type, architectCount |-> architectCount, alchemistCount |-> alchemistCount]

\* layer1Result.type.includes('Architect') and .includes('Alchemist')
PathOf(type) ==
  CASE type \in {"Strong Architect", "Medium Architect", "Weak Architect"} -> "architect"
    [] type \in {"Strong Alchemist", "Medium Alchemist", "Weak Alchemist"} -> "alchemist"
    [] OTHER -> "mixed"

\* mapping[answer] || '' of the path; the mixed path has no mapping
ScoreKey(path, answer) ==
  CASE path = "architect" /\ answer = "a" -> "planner"
    [] path = "architect" /\ answer = "b" -> "operator"
    [] path = "architect" /\ answer = "c" -> "analyst"
    [] path = "alchemist" /\ answer = "a" -> "oracle"
    [] path = "alchemist" /\ answer = "b" -> "perfectionist"
    [] path = "alchemist" /\ answer = "c" -> "empath"
    [] path \in {"architect", "alchemist"} /\ answer = "d" -> "ultimate"
    [] OTHER -> ""

\* subtype.charAt(0).toUpperCase() + subtype.slice(1)
Capitalize(s) ==
  CASE s = "planner" -> "Planner"
    [] s = "operator" -> "Operator"
    [] s = "analyst" -> "Analyst"
    [] s = "ultimate" -> "Ultimate"
    [] s = "oracle" -> "Oracle"
    [] s = "perfectionist" -> "Perfectionist"
    [] s = "empath" -> "Empath"
    [] OTHER -> s

calculateLayer2(answers, layer1Result) ==
  LET path == PathOf(layer1Result.type)
      qs == L2Questions[path]
      keyAt(i) == IF Truthy(Ans(answers, qs[i])) THEN ScoreKey(path, Ans(answers, qs[i])) ELSE ""
      keys == {keyAt(i) : i \in DOMAIN qs} \ {""}
      scores == [k \in keys |-> Cardinality({i \in DOMAIN qs : keyAt(i) = k})]
      \* Object.entries lists the keys in the order of their first increment
      firstAt(k) == CHOOSE i \in DOMAIN qs : keyAt(i) = k /\ \A j \in 1..(i - 1) : keyAt(j) # k
      subtype == IF keys = {} THEN ""
                 ELSE CHOOSE k \in keys :
                        \A o \in keys : \/ scores[o] < scores[k]
                                        \/ scores[o] = scores[k] /\ firstAt(k) <= firstAt(o)
  IN [subtype |-> Capitalize(subtype), path |-> path, scores |-> scores]

L3Dimensions ==
  <<[name |-> "Validator Awareness", labels |-> <<"Opposite", "Partial", "Full">>],
    [name |-> "Emotional Regulation", labels |-> <<"Reactive", "Aware", "Integrated">>],
    [name |-> "Feedback Processing", labels |-> <<"Defensive", "Selective", "Open">>],
    [name |-> "Blind Spot Recognition", labels |-> <<"Unaware", "Emerging", "Aware">>],
    [name |-> "Self-Correction Speed", labels |-> <<"Slow", "Moderate", "Fast">>],
    [name |-> "Growth Orientation", labels |-> <<"Fixed", "Mixed", "Growth">>]>>

\* the index of the options a, b, c in a list of labels, 0 for any other value
OptionIndex(answer) ==
  CASE answer = "a" -> 1 [] answer = "b" -> 2 [] answer = "c" -> 3 [] OTHER -> 0

RECURSIVE SumSeq(_)
SumSeq(seq) == IF seq = <<>> THEN 0 ELSE Head(seq) + SumSeq(Tail(seq))

calculateLayer3(answers) ==
  LET idx(i) == OptionIndex(Ans(answers, L3Questions[i]))
      score(i) == IF idx(i) = 0 THEN 0 ELSE idx(i) - 1
      label(i) == IF idx(i) = 0 THEN "" ELSE L3Dimensions[i].labels[idx(i)]
      dimensions == [n \in {L3Dimensions[i].name : i \in DOMAIN L3Dimensions} |->
                       LET i == CHOOSE j \in DOMAIN L3Dimensions : L3Dimensions[j].name = n
                       IN [score |-> score(i), label |-> label(i)]]
  IN [totalScore |-> SumSeq([i \in DOMAIN L3Questions |-> score(i)]), maxScore |-> 12,
      dimensions |-> dimensions]

\* the value JavaScript gives 0 / 0 and every computation on it
NaN == -1
\* Math.round((score / total) * 100)
RoundedPercent(score, total) ==
  IF total = 0 THEN NaN ELSE (200 * score + total) \div (2 * total)

Modalities == <<"visual", "auditory", "readWrite", "kinesthetic">>
ModalityOf(answer) ==
  CASE answer = "a" -> "visual" [] answer = "b" -> "auditory" [] answer = "c" -> "readWrite"
    [] answer = "d" -> "kinesthetic" [] OTHER -> ""

calculateLayer4(answers) ==
  LET scores == [m \in Range(Modalities) |->
                   Cardinality({i \in DOMAIN L4Questions :
                                  ModalityOf(Ans(answers, L4Questions[i])) = m})]
      total == SumSeq([i \in DOMAIN Modalities |-> scores[Modalities[i]]])
      \* the first modality, in the order of the keys, that no other exceeds
      best == CHOOSE i \in DOMAIN Modalities :
                /\ \A j \in DOMAIN Modalities : scores[Modalities[j]] <= scores[Modalities[i]]
                /\ \A j \in 1..(i - 1) : scores[Modalities[j]] < scores[Modalities[i]]
  IN [dominantModality |-> Modalities[best], scores |-> scores,
      percentages |-> [m \in Range(Modalities) |-> RoundedPercent(scores[m], total)]]

L5Dimensions == <<"Focus Pattern", "Processing Speed", "Energy Pattern", "Task Switching",
                  "Stress Response", "Recovery Pattern">>

\* a calculateLayer5 that also files the Layer 1 type in the profile
calculateLayer5WithCoreType(answers) ==
  LET answered == {i \in DOMAIN L5Questions : Truthy(Ans(answers, L5Questions[i]))}
  IN [profile |-> [n \in {L5Dimensions[i] : i \in answered} \cup {"Core Type"} |->
                     IF n = "Core Type" THEN calculateLayer1(answers).type
                     ELSE LET i == CHOOSE j \in answered : L5Dimensions[j] = n
                          IN Ans(answers, L5Questions[i])]]

calculateLayer5(answers) ==
  LET answered == {i \in DOMAIN L5Questions : Truthy(Ans(answers, L5Questions[i]))}
  IN [profile |-> [n \in {L5Dimensions[i] : i \in answered} |->
                     LET i == CHOOSE j \in answered : L5Dimensions[j] = n
                     IN Ans(answers, L5Questions[i])]]

calculateLayer6(answers) ==
  LET q37 == Ans(answers, "L6_Q37")
      q38 == Ans(answers, "L6_Q38")
      coreType == CASE q37 = "a" /\ q38 = "a" -> "Confident & Steady"
                    [] q37 = "a" /\ q38 = "b" -> "Confident & Driven"
                    [] q37 = "b" /\ q38 = "a" -> "Considerate & Steady"
                    [] q37 = "b" /\ q38 = "b" -> "Fast-Moving & Adaptive"
                    [] OTHER -> ""
  IN [mindset |->
        [growthFixed |-> IF Ans(answers, "L6_Q34") = "a" THEN "Growth" ELSE "Fixed",
         abundanceScarcity |-> IF Ans(answers, "L6_Q35") = "a" THEN "Abundance" ELSE "Scarcity",
         challengeComfort |-> IF Ans(answers, "L6_Q36") = "a" THEN "Challenge" ELSE "Comfort"],
      personality |->
        [coreType |-> coreType,
         communicationStyle |-> IF Ans(answers, "L6_Q39") = "a" THEN "Direct Communicator"
                                ELSE "Diplomatic Communicator"]]

L7Mapping ==
  <<[name |-> "Grounding Source", labels |-> <<"Self-Reliant", "Faith-Reliant", "Dual-Reliant">>],
    [name |-> "Control Belief",
     labels |-> <<"I'm In Control", "Life Influences Me", "Shared Control">>],
    [name |-> "Fairness View",
     labels |-> <<"Responsibility View", "Compassion View", "Balanced View">>],
    [name |-> "Honesty Style",
     labels |-> <<"Direct Honesty", "Gentle Honesty", "Balanced Honesty">>],
    [name |-> "Growth Approach",
     labels |-> <<"Growth Focused", "Comfort Focused", "Steady Growth">>],
    [name |-> "Impact Motivation",
     labels |-> <<"Self-Focused Impact", "Others-Focused Impact", "Shared Impact">>]>>

\* answer.charCodeAt(0) is a TypeError on an answer that is truthy and no string
Layer7Throws(answers) ==
  \E i \in DOMAIN L7Questions :
     LET answer == Ans(answers, L7Questions[i]) IN Truthy(answer) /\ ~IsString(answer)

\* calculateLayer7 on every answer that is a string or falsy
calculateLayer7(answers) ==
  LET answered == {i \in DOMAIN L7Questions : Truthy(Ans(answers, L7Questions[i]))}
  IN [beliefs |-> [n \in {L7Mapping[i].name : i \in answered} |->
                     LET i == CHOOSE j \in answered : L7Mapping[j].name = n
                         index == OptionIndex(Ans(answers, L7Questions[i]))
                     IN IF index = 0 THEN "" ELSE L7Mapping[i].labels[index]]]

\* what a call returns: the value, or the exception it threw
Returned(value) == [threw |-> FALSE, results |-> value]
Threw == [threw |-> TRUE, results |-> <<>>]

calculateAllResults(answers) ==
  IF Layer7Throws(answers) THEN Threw
  ELSE LET layer1 == calculateLayer1(answers)
       IN Returned([layer1 |-> layer1,
                    layer2 |-> calculateLayer2(answers, layer1),
                    layer3 |-> calculateLayer3(answers),
                    layer4 |-> calculateLayer4(answers),
                    layer5 |-> calculateLayer5(answers),
                    layer6 |-> calculateLayer6(answers),
                    layer7 |-> calculateLayer7(answers)])

\* the answer maps of the specification: any part of one layer's questions
\* answered, with the options of that layer and the values that are none
AnswerMapsOver(questions, values) ==
  UNION {[S -> values] : S \in SUBSET Range(questions)}
\* Layer 1 answers that select each of the three paths of Layer 2
PathSelectors ==
  [architect |-> [q \in Range(L1Questions) |-> "a"],
   alchemist |-> [q \in Range(L1Questions) |-> "b"],
   mixed |-> <<>>]
\* a path selected and any part of that path's questions answered: all eight
\* with two of the options, the first four with the other values
Layer2Maps ==
  UNION {{PathSelectors[path] @@ m :
            m \in AnswerMapsOver(L2Questions[path], {"a", "b"})
                    \cup AnswerMapsOver(SubSeq(L2Questions[path], 1, 4), {"a", "c", "d", "z"})} :
         path \in DOMAIN L2Questions}
AnswerMaps ==
  AnswerMapsOver(L1Questions, {"a", "b", "c"})
    \cup Layer2Maps
    \cup AnswerMapsOver(L4Questions, {"a", "b", "c", "d", "z"})
    \cup AnswerMapsOver(L7Questions, {"a", "d", NumberFive})

ScoreLayer1 ==
  /\ quiz.call = "none"
  /\ quiz' = [quiz EXCEPT !.call = "calculateLayer1", !.threw = FALSE,
                          !.results = calculateLayer1(quiz.answers)]
  /\ UNCHANGED <<pool, backend, now, ticks, nextId, quiz_results, tokens, links, tasks, reply, resp,
                 files, timers, s3, ghl, seen, saved>>

ScoreLayer2 ==
  /\ quiz.call = "none"
  /\ quiz' = [quiz EXCEPT !.call = "calculateLayer2", !.threw = FALSE,
                          !.results = calculateLayer2(quiz.answers,
                                                      calculateLayer1(quiz.answers))]
  /\ UNCHANGED <<pool, backend, now, ticks, nextId, quiz_results, tokens, links, tasks, reply, resp,
                 files, timers, s3, ghl, seen, saved>>

ScoreLayer4 ==
  /\ quiz.call = "none"
  /\ quiz' = [quiz EXCEPT !.call = "calculateLayer4", !.threw = FALSE,
                          !.results = calculateLayer4(quiz.answers)]
  /\ UNCHANGED <<pool, backend, now, ticks, nextId, quiz_results, tokens, links, tasks, reply, resp,
                 files, timers, s3, ghl, seen, saved>>

ScoreAll ==
  /\ quiz.call = "none"
  /\ LET out == calculateAllResults(quiz.answers)
     IN quiz' = [quiz EXCEPT !.call = "calculateAllResults", !.threw = out.threw,
                             !.results = out.results]
  /\ UNCHANGED <<pool, backend, now, ticks, nextId, quiz_results, tokens, links, tasks, reply, resp,
                 files, timers, s3, ghl, seen, saved>>

ScoreInit ==
  /\ backend \in Backends
  /\ now = 0
  /\ ticks = 0
  /\ nextId = 1
  /\ quiz_results = {}
  /\ tokens = {}
  /\ links = {}
  /\ tasks = [i \in Ids |-> NoTask]
  /\ reply = [i \in Ids |-> 0]
  /\ resp = NoResp
  /\ files = {}
  /\ timers = {}
  /\ s3 = {}
  /\ ghl = {}
  /\ seen = {}
  /\ saved = <<>>
  /\ pool = NoPool
  /\ \E answers \in AnswerMaps : quiz = [NoQuiz EXCEPT !.answers = answers]

ScoreNext == ScoreLayer1 \/ ScoreLayer2 \/ ScoreLayer4 \/ ScoreAll

ScoreSpec == ScoreInit /\ [][ScoreNext]_vars

\* --------------------------------------------------- claims C16 .. C18
AnsweredWith(questions, v) ==
  {q \in Range(questions) : q \in DOMAIN quiz.answers /\ quiz.answers[q] = v}

\* C16: scoring is total: for every answer map, the empty map, maps with
\* missing questions and maps with malformed answer values included,
\* calculateAllResults returns without throwing an object that holds all of
\* layer1 .. layer7
C16_ScoringTotal ==
  quiz.call = "calculateAllResults" =>
    /\ ~quiz.threw
    /\ DOMAIN quiz.results =
         {"layer1", "layer2", "layer3", "layer4", "layer5", "layer6", "layer7"}

\* C17: Layer 1 classifies by the exact pair of counts of "a" and "b" over
\* L1_Q1 .. L1_Q8: 8/0, 7/1, 6/2 give Strong, Medium, Weak Architect, 0/8,
\* 1/7, 2/6 give Strong, Medium, Weak Alchemist, every other pair gives Blurred
C17_Layer1ExactTable ==
  quiz.call = "calculateLayer1" =>
    LET pair == <<Cardinality(AnsweredWith(L1Questions, "a")),
                  Cardinality(AnsweredWith(L1Questions, "b"))>>
    IN /\ quiz.results.architectCount = pair[1]
       /\ quiz.results.alchemistCount = pair[2]
       /\ quiz.results.type =
            CASE pair = <<8, 0>> -> "Strong Architect"
              [] pair = <<7, 1>> -> "Medium Architect"
              [] pair = <<6, 2>> -> "Weak Architect"
              [] pair = <<0, 8>> -> "Strong Alchemist"
              [] pair = <<1, 7>> -> "Medium Alchemist"
              [] pair = <<2, 6>> -> "Weak Alchemist"
              [] OTHER -> "Blurred"

\* six answers "a" and two that are neither "a" nor "b" have been classified
C17_Witness ==
  /\ quiz.call = "calculateLayer1"
  /\ Cardinality(AnsweredWith(L1Questions, "a")) = 6
  /\ Cardinality(AnsweredWith(L1Questions, "b")) < 2
  /\ quiz.results.type = "Blurred"

\* C18: Layer 4 with no answer to any of L4_Q23 .. L4_Q27 returns the dominant
\* modality "visual" and the four percentages 0
C18_Layer4EmptyIsZero ==
  (quiz.call = "calculateLayer4" /\ DOMAIN quiz.answers \cap Range(L4Questions) = {}) =>
    /\ quiz.results.dominantModality = "visual"
    /\ \A m \in Range(Modalities) : quiz.results.percentages[m] = 0

\* ----------------------------------------------------------- claim C19
\* the background task of result id ended in its render stage
RenderFailed(id) ==
  /\ tasks[id].pc = "failed"
  /\ \A stage \in Stages \ {"render"} : tasks[id].runs[stage] = 0

\* the step in which the renderer of result id's task fails or throws
RenderFailureStep(id) ==
  /\ tasks[id].pc = "render"
  /\ tasks'[id].pc # "render"
  /\ id \notin files'

\* the record of result id as save-results stored it: no artifact attached
AsSaved(id) ==
  \A q \in quiz_results :
     q.id = id => q.pdf_url = NoUrl /\ q.s3_key = NoKey /\ q.updated_at = q.created_at

\* nothing was uploaded, issued or notified for result id
NoArtifactOf(id) ==
  /\ S3KeyOf(PdfFileName(id)) \notin s3
  /\ ~ \E t \in tokens : t.quiz_result_id = id
  /\ ~ \E l \in links : l.s3_key = S3KeyOf(PdfFileName(id))
  /\ ~ \E g \in ghl : g.id = id
  /\ tasks[id].key = NoKey
  /\ tasks[id].tok = NoToken

\* C19: when the renderer returns failure or throws in the background task,
\* the task ends there: the step changes no record, upload, token or
\* notification, and from then on the persisted record of that result is as
\* it was saved and nothing is uploaded, issued or notified for that run
C19_RenderFailureLeavesRecord ==
  /\ [][\A id \in Ids :
          RenderFailureStep(id) =>
            /\ tasks'[id].pc = "failed"
            /\ UNCHANGED <<quiz_results, s3, tokens, links, ghl>>]_vars
  /\ [](\A id \in Ids :
          (tasks[id].runs["render"] > 0 /\ tasks[id].runs["upload"] > 0)
            => (id \in files \/ id \in timers \/ tasks[id].pc = "done"))
  /\ [](\A id \in Ids : RenderFailed(id) => AsSaved(id) /\ NoArtifactOf(id))

\* a saved result whose render failed, while another request went on
C19_Witness ==
  \E id \in Ids :
     /\ RenderFailed(id)
     /\ \E q \in quiz_results : q.id = id
     /\ nextId > id + 1

\* ----------------------------------------------------------- claim C20
\* the pipeline run that wrote the temp file of result id is still going on
RunGoingOn(id) == tasks[id].pc \in Stages

\* C20: every temp file written by a pipeline run (background task,
\* generate-pdf, download-pdf) is eventually deleted, also when the run fails
\* at a stage after the render.  Only the cleanup timer deletes a file, so a
\* file is eventually deleted exactly when, once its run is over, its timer
\* is armed
C20_TempFilesCleanedUp ==
  \A id \in files : RunGoingOn(id) \/ id \in timers

\* ----------------------------------------------------------- claim C21
\* the background pipeline of result id has run to its end after a good upload
UploadedAndDone(id) == tasks[id].pc = "done" /\ tasks[id].key # NoKey

\* C21: once the background pipeline has uploaded the artifact and has run
\* to its end, the record saved for that submission holds the artifact's URL
\* and storage key, so that a query by email returns a pdfUrl that is not null
C21_RecordHoldsArtifact ==
  \A id \in Ids :
     UploadedAndDone(id) =>
       \A q \in quiz_results :
          q.id = id => q.pdf_url = UrlOf(tasks[id].key) /\ q.s3_key = tasks[id].key

\* ----------------------------------------------------------- claim C22
\* the token store of the deployed back end holds the token string
InTokenStore(tok) ==
  IF backend = "postgres" THEN \E t \in tokens : t.token = tok
  ELSE \E l \in links : l.token = tok

\* the stages of the pipeline that come before stage
StagesBefore(stage) ==
  CASE stage = "render" -> {}
    [] stage = "upload" -> {"render"}
    [] stage = "attach" -> {"render", "upload"}
    [] stage = "token" -> {"render", "upload"}
    [] stage = "notify" -> {"render", "upload", "token"}

\* C22: the stages run in the order render, upload, token issuance,
\* notification, each only after the one before it; the notification
\* collaborator is called with a link only when the token of the link has
\* been persisted, so no link is handed out whose token the store lacks
C22_NotifyAfterTokenPersisted ==
  /\ \A id \in Ids, stage \in Stages :
       (tasks[id].pc = stage \/ tasks[id].runs[stage] > 0) =>
         \A before \in StagesBefore(stage) : tasks[id].runs[before] > 0
  /\ \A id \in Ids :
       (tasks[id].pc = "notify" \/ tasks[id].runs["notify"] > 0) =>
         tasks[id].tok # NoToken /\ InTokenStore(tasks[id].tok)
  /\ \A g \in ghl : g.token # NoToken /\ InTokenStore(g.token)

\* the external system has been handed the link of a finished pipeline
C22_Witness ==
  \E g \in ghl :
     /\ tasks[g.id].pc = "done"
     /\ tasks[g.id].runs["notify"] > 0
     /\ InTokenStore(g.token)

\* ----------------------------------------------------------- claim C23
\* the token rows a step adds to the token store of either kind
IssuedInStep == (tokens' \ tokens) \cup (links' \ links)

\* C23: for every token issued, by createDownloadToken or by
\* createPdfDownloadToken, the validity window (expiresAt minus the time of
\* creation) is strictly longer than the validity of the presigned URL
\* minted at redemption
C23_TokenOutlivesPresignedUrl ==
  [][\A t \in IssuedInStep : t.expires_at - now > PresignHours]_vars

\* ----------------------------------------------------------- claim C24
\* the answers of the scored map to the questions of a Layer 2 path that are
\* one of the four option codes
MappedAnswers(path) ==
  {i \in DOMAIN L2Questions[path] :
     /\ L2Questions[path][i] \in DOMAIN quiz.answers
     /\ quiz.answers[L2Questions[path][i]] \in {"a", "b", "c", "d"}}

RECURSIVE SumTallies(_)
SumTallies(scores) ==
  IF DOMAIN scores = {} THEN 0
  ELSE LET k == CHOOSE x \in DOMAIN scores : TRUE
       IN scores[k] + SumTallies([x \in DOMAIN scores \ {k} |-> scores[x]])

\* the first question of the path whose answer was tallied for subtype k
FirstTallied(path, k) ==
  CHOOSE i \in MappedAnswers(path) :
     /\ ScoreKey(path, quiz.answers[L2Questions[path][i]]) = k
     /\ \A j \in MappedAnswers(path) :
          ScoreKey(path, quiz.answers[L2Questions[path][j]]) = k => i <= j

\* C24: Layer 2 takes the path Layer 1 selected (architect, alchemist or
\* mixed), tallies per subtype over the 8 questions of that path, so that the
\* tallies sum to the number of those questions answered with a mapped code,
\* and returns the capitalized name of the subtype with the highest tally,
\* a tie going to the subtype tallied first
C24_Layer2TallyAndDominant ==
  quiz.call = "calculateLayer2" =>
    LET path == quiz.results.path
        scores == quiz.results.scores
    IN /\ path = PathOf(calculateLayer1(quiz.answers).type)
       /\ SumTallies(scores) = Cardinality(MappedAnswers(path))
       /\ MappedAnswers(path) # {} =>
            \E k \in DOMAIN scores :
               /\ quiz.results.subtype = Capitalize(k)
               /\ quiz.results.subtype # k
               /\ \A o \in DOMAIN scores :
                    \/ scores[o] < scores[k]
                    \/ scores[o] = scores[k] /\ FirstTallied(path, k) <= FirstTallied(path, o)

\* ------------------------------------------- two answer maps (claim C25)
L6Questions == <<"L6_Q34", "L6_Q35", "L6_Q36", "L6_Q37", "L6_Q38", "L6_Q39">>

\* the questions a layer reads; Layer 2 reads the three sets of its paths
LayerQuestions ==
  [layer1 |-> Range(L1Questions),
   layer2 |-> UNION {Range(L2Questions[path]) : path \in DOMAIN L2Questions},
   layer3 |-> Range(L3Questions),
   layer4 |-> Range(L4Questions),
   layer5 |-> Range(L5Questions),
   layer6 |-> Range(L6Questions),
   layer7 |-> Range(L7Questions)]

\* one question of every set of questions, and the rest of Layer 1 answered
\* so that the one Layer 1 question decides the path
PairQuestions ==
  {"L1_Q1", "L2_Q9", "L2_Q9a", "L2_Qm9", "L3_Q17", "L4_Q23", "L5_Q28", "L6_Q34", "L7_Q40"}
OneOption == {"L3_Q17", "L4_Q23", "L5_Q28", "L6_Q34", "L7_Q40"}
Layer1Rest ==
  {[q \in Range(Tail(L1Questions)) |-> "a"], [q \in Range(Tail(L1Questions)) |-> "b"], <<>>}
PairMaps ==
  {rest @@ m : rest \in Layer1Rest,
               m \in {x \in UNION {[S -> {"a", "b"}] : S \in SUBSET PairQuestions} :
                        \A q \in DOMAIN x \cap OneOption : x[q] = "a"}}

\* the answer map with the answer to question qid replaced, or taken out
WithAnswer(answers, qid, v) ==
  IF v = Undefined THEN [q \in DOMAIN answers \ {qid} |-> answers[q]]
  ELSE [q \in DOMAIN answers \cup {qid} |-> IF q = qid THEN v ELSE answers[q]]

\* a second submission that differs from the first in one answer: both scored
ScorePair(qid, v) ==
  /\ quiz.call = "none"
  /\ Ans(quiz.answers, qid) # v
  /\ LET other == WithAnswer(quiz.answers, qid, v)
     IN quiz' = [quiz EXCEPT !.call = "pair",
                             !.results = calculateAllResults(quiz.answers).results,
                             !.other = other,
                             !.otherResults = calculateAllResults(other).results]
  /\ UNCHANGED <<pool, backend, now, ticks, nextId, quiz_results, tokens, links, tasks, reply, resp,
                 files, timers, s3, ghl, seen, saved>>

PairInit ==
  /\ backend = "postgres"
  /\ now = 0
  /\ ticks = 0
  /\ nextId = 1
  /\ quiz_results = {}
  /\ tokens = {}
  /\ links = {}
  /\ tasks = [i \in Ids |-> NoTask]
  /\ reply = [i \in Ids |-> 0]
  /\ resp = NoResp
  /\ files = {}
  /\ timers = {}
  /\ s3 = {}
  /\ ghl = {}
  /\ seen = {}
  /\ saved = <<>>
  /\ pool = NoPool
  /\ \E answers \in PairMaps : quiz = [NoQuiz EXCEPT !.answers = answers]

PairNext == \E qid \in PairQuestions, v \in {"a", "b", Undefined} : ScorePair(qid, v)

PairSpec == PairInit /\ [][PairNext]_vars

\* the two scored maps give the same answer to every question of the set
AgreeOn(questions) ==
  \A q \in questions : Ans(quiz.answers, q) = Ans(quiz.other, q)

\* C25: the layers are independent but for Layer 1 to Layer 2: two answer
\* maps that agree on the questions of layer k (k in 1, 3, 4, 5, 6, 7) have
\* equal layer-k results, two that agree on the Layer 1 and the Layer 2
\* questions have equal Layer 2 results, and the three Layer 1 outcomes read
\* three pairwise different sets of Layer 2 questions
C25_LayersIndependent ==
  quiz.call = "pair" =>
    /\ \A k \in {"layer1", "layer3", "layer4", "layer5", "layer6", "layer7"} :
         AgreeOn(LayerQuestions[k]) => quiz.results[k] = quiz.otherResults[k]
    /\ AgreeOn(LayerQuestions.layer1 \cup LayerQuestions.layer2)
         => quiz.results.layer2 = quiz.otherResults.layer2
    /\ \A p1, p2 \in DOMAIN L2Questions :
         p1 # p2 => Range(L2Questions[p1]) # Range(L2Questions[p2])
    /\ L2Questions[quiz.results.layer2.path] # L2Questions[quiz.otherResults.layer2.path]
         => quiz.results.layer1.type # quiz.otherResults.layer1.type

\* two maps that differ in a Layer 1 answer only and are put on two paths of
\* Layer 2, all other layers scored alike
C25_Witness ==
  /\ quiz.call = "pair"
  /\ ~AgreeOn(LayerQuestions.layer1)
  /\ quiz.results.layer2 # quiz.otherResults.layer2
  /\ \A k \in {"layer3", "layer4", "layer5", "layer6", "layer7"} :
       quiz.results[k] = quiz.otherResults[k]

\* ----------------------------------------------------------- claim C26
\* the rows of the result table with result id
RowsOf(rows, id) == {q \in rows : q.id = id}

\* C26: whatever the order of the saves, the result table holds at most one
\* row per result id: a save with an id that exists updates that row in
\* place or fails and adds no second row, and a save changes no row of
\* another id
C26_OneRowPerResultId ==
  /\ [](\A id \in Ids : Cardinality(RowsOf(quiz_results, id)) <= 1)
  /\ [][resp'.h = "save" =>
         /\ \A id \in Ids \ {resp'.id} : RowsOf(quiz_results', id) = RowsOf(quiz_results, id)
         /\ RowsOf(quiz_results, resp'.id) # {} =>
              /\ Cardinality(RowsOf(quiz_results', resp'.id)) = 1
              /\ \A q \in RowsOf(quiz_results, resp'.id), n \in RowsOf(quiz_results', resp'.id) :
                   n.created_at = q.created_at /\ n.email = q.email]_vars

\* a save with the id of an existing row went through and changed the row
\* while the row of another id stayed
C26_Witness ==
  /\ resp.h = "save"
  /\ resp.success
  /\ Len(saved) > 1
  /\ \E i \in 1..(Len(saved) - 1) :
       saved[i].id = resp.id /\ saved[i].results # saved[Len(saved)].results
  /\ \E q \in quiz_results : q.id # resp.id

\* ------------------------------------------ the connection pool (pg)
\* the operations of postgres-db.js that check a client out of the pool
PgOperations ==
  {"saveQuizResult", "getQuizResultByEmail", "createDownloadToken", "verifyDownloadToken",
   "testConnection"}

\* a getPool that makes a new pool on every call
getPoolAlwaysNew(p) ==
  [p EXCEPT !.current = p.made + 1, !.made = p.made + 1, !.live = p.live \cup {p.made + 1}]

\* getPool: if (!pool) pool = new Pool(DB_CONFIG); return pool
getPool(p) ==
  IF p.current = 0
  THEN [p EXCEPT !.current = p.made + 1, !.made = p.made + 1, !.live = p.live \cup {p.made + 1}]
  ELSE p

\* does the operation release its client after the query: all of them in a
\* finally block, testConnection on the line after its query
ReleasesClient(kind, queryOk) == kind # "testConnection" \/ queryOk

\* a call of getPool from outside the module
GetPool ==
  /\ pool.current # 0 \/ pool.made < MaxPools
  /\ pool' = [getPool(pool) EXCEPT !.call = "getPool", !.ret = getPool(pool).current]
  /\ UNCHANGED <<backend, now, ticks, nextId, quiz_results, tokens, links, tasks, reply, resp,
                 files, timers, s3, ghl, seen, saved, quiz>>

\* closePool up to its await: nothing without a pool; pool.end() on the pool
\* otherwise, which rejects when the pool is ending already
ClosePool ==
  /\ pool' = IF pool.current = 0 \/ pool.closing
             THEN [pool EXCEPT !.call = "closePool", !.ret = 0]
             ELSE [pool EXCEPT !.call = "closePool", !.ret = 0, !.closing = TRUE,
                               !.live = @ \ {pool.current}]
  /\ UNCHANGED <<backend, now, ticks, nextId, quiz_results, tokens, links, tasks, reply, resp,
                 files, timers, s3, ghl, seen, saved, quiz>>

\* pool.end() resolves once every client is back; closePool sets pool = null
ClosePoolEnded ==
  /\ pool.closing
  /\ pool.out = 0
  /\ pool' = [pool EXCEPT !.call = "ended", !.ret = 0, !.closing = FALSE, !.current = 0]
  /\ UNCHANGED <<backend, now, ticks, nextId, quiz_results, tokens, links, tasks, reply, resp,
                 files, timers, s3, ghl, seen, saved, quiz>>

\* an operation starts: await getPool().connect(), outside of its try (inside
\* for testConnection); a rejected connect hands out no client
OpStart(o, kind) ==
  /\ pool.ops[o].pc = "idle"
  /\ pool.current # 0 \/ pool.made < MaxPools
  /\ \E connectOk \in BOOLEAN :
       LET p == getPool(pool)
           connected == connectOk /\ p.current \in p.live
       IN pool' = [p EXCEPT !.call = kind, !.ret = p.current,
                            !.out = IF connected THEN @ + 1 ELSE @,
                            !.ops[o] = [kind |-> kind,
                                        pc |-> IF connected THEN "connected" ELSE "returned"]]
  /\ UNCHANGED <<backend, now, ticks, nextId, quiz_results, tokens, links, tasks, reply, resp,
                 files, timers, s3, ghl, seen, saved, quiz>>

\* await client.query(...): it resolves or rejects
OpQuery(o, queryOk) ==
  /\ pool.ops[o].pc = "connected"
  /\ pool' = [pool EXCEPT !.call = "query", !.ret = 0,
                          !.ops[o].pc = IF queryOk THEN "queried" ELSE "query failed"]
  /\ UNCHANGED <<backend, now, ticks, nextId, quiz_results, tokens, links, tasks, reply, resp,
                 files, timers, s3, ghl, seen, saved, quiz>>

\* the operation returns, through client.release() where its code has one
OpReturn(o) ==
  /\ pool.ops[o].pc \in {"queried", "query failed"}
  /\ pool' = [pool EXCEPT !.call = "return", !.ret = 0,
                          !.out = IF ReleasesClient(pool.ops[o].kind, pool.ops[o].pc = "queried")
                                  THEN @ - 1 ELSE @,
                          !.ops[o].pc = "returned"]
  /\ UNCHANGED <<backend, now, ticks, nextId, quiz_results, tokens, links, tasks, reply, resp,
                 files, timers, s3, ghl, seen, saved, quiz>>

PoolInit ==
  /\ backend = "postgres"
  /\ now = 0
  /\ ticks = 0
  /\ nextId = 1
  /\ quiz_results = {}
  /\ tokens = {}
  /\ links = {}
  /\ tasks = [i \in Ids |-> NoTask]
  /\ reply = [i \in Ids |-> 0]
  /\ resp = NoResp
  /\ files = {}
  /\ timers = {}
  /\ s3 = {}
  /\ ghl = {}
  /\ seen = {}
  /\ saved = <<>>
  /\ quiz = NoQuiz
  /\ pool = NoPool

PoolNext ==
  \/ GetPool
  \/ ClosePool
  \/ ClosePoolEnded
  \/ \E o \in OpIds, kind \in PgOperations : OpStart(o, kind)
  \/ \E o \in OpIds, queryOk \in BOOLEAN : OpQuery(o, queryOk)
  \/ \E o \in OpIds : OpReturn(o)

PoolSpec == PoolInit /\ [][PoolNext]_vars

\* ----------------------------------------------------------- claim C27
\* what a step does to the pool when getPool or closePool is called
PoolStepAsClaimed ==
  /\ (pool'.call = "getPool") =>
       /\ pool'.ret = pool'.current /\ pool'.ret # 0
       /\ (pool.current # 0) => (pool'.ret = pool.current /\ pool'.made = pool.made)
       /\ (pool.current = 0) => (pool'.made = pool.made + 1)
  /\ (pool'.made # pool.made) => (pool.current = 0 /\ pool'.current = pool'.made)
  /\ (pool'.call = "closePool" /\ pool.current = 0) =>
       /\ pool'.current = 0
       /\ pool'.live = pool.live
       /\ pool'.made = pool.made

\* C27: the pool is made lazily and reused: at most one pool is live, a
\* getPool returns the pool there is and makes one only when there is none
\* (at the start or after a closePool), no other call makes a pool, and a
\* closePool without a pool changes nothing
C27_PoolLazyAndReused ==
  /\ [](Cardinality(pool.live) <= 1 /\ pool.live \subseteq {pool.current})
  /\ [][PoolStepAsClaimed]_vars

\* a second pool was made by the first getPool after a closePool, and the
\* getPool after that returned it again
C27_Witness ==
  /\ pool.call = "getPool"
  /\ pool.made = 2
  /\ pool.ret = 2
  /\ pool.live = {2}

\* ----------------------------------------------------------- claim C29
\* every operation that was started has returned
AllReturned == \A o \in OpIds : pool.ops[o].pc \in {"idle", "returned"}

\* C29: every persistence operation releases the client it acquired on
\* every path, a failed query included, testConnection included: once all
\* started operations have returned no client is checked out
C29_ClientsReleased ==
  AllReturned => pool.out = 0

\* ----------------------------------------------------------- claim C28
\* C28: getQuizResultByEmail(e) returns a record only if the stored email of
\* the record, trimmed and lower-cased, equals e trimmed and lower-cased;
\* when no record was saved for e it returns not-found, never the record of
\* another address
C28_OnlyTheAskedEmail ==
  (resp.h = "get" /\ resp.db = "ok") =>
    /\ resp.success => LowerTrim(resp.data.email) = LowerTrim(resp.email)
    /\ (~ \E i \in DOMAIN saved : LowerTrim(saved[i].email) = LowerTrim(resp.email))
         => ~resp.success

\* ------------------------------------------------------------------ C30
\* C30: every request gets exactly one response: save-results writes no
\* second response after its 200 whatever the promise of the background task
\* does, and download-pdf writes none when the stream fails after the
\* headers were sent.
C30_ExactlyOneResponse ==
  resp # NoResp => resp.sent = 1

\* a download whose stream failed after the headers had been sent
C30_Witness ==
  /\ resp.h = "download-pdf"
  /\ resp.status = 200
  /\ resp.after = "stream_error"
  /\ resp.sent = 1

====
